---- MODULE Spec2Model ----
(***************************************************************************)
(* Model of the per-user record store of slack-digest                      *)
(* (src/user_settings.py, class UserSettings): issues with their status    *)
(* history, projects, and the backing JSON file.                           *)
(*                                                                         *)
(* The dict of issues, which search_issues iterates, is a sequence of      *)
(* entries [k, v] in insertion order; the other dicts (users, a user's     *)
(* sections, projects) are functions; strings are TLA+ strings, and Chars *)
(* gives the character codes of those the code slices, concatenates or     *)
(* searches (message text, title, channel, timestamp, query);              *)
(* datetime.now().isoformat() is a reading of the integer variable clock.  *)
(*                                                                         *)
(* settings is self.settings of the UserSettings instance that is making   *)
(* the calls, file the backing file; other is a second instance, of        *)
(* another process, constructed on the same file.                          *)
(***************************************************************************)
EXTENDS Integers, Sequences, FiniteSets, TLC

VARIABLES settings, file, disk, clock, last, other

vars == <<settings, file, disk, clock, last, other>>

(***************************************************************************)
(* Bounds of the exploration.                                              *)
(***************************************************************************)
MaxClock == 1
MaxStore == 3

(***************************************************************************)
(* Program constants.                                                      *)
(***************************************************************************)
PrefixLen == 100

(***************************************************************************)
(* Python values.                                                          *)
(***************************************************************************)
None == "None"
EmptyDict == <<>>
EmptyMap == [x \in {} |-> x]

\* d.get(key, default)
Get(d, key, default) == IF key \in DOMAIN d THEN d[key] ELSE default

\* d[key] = value and del d[key] on a dict kept as a function
MapSet(d, key, value) == [x \in DOMAIN d \cup {key} |-> IF x = key THEN value ELSE d[x]]
MapDel(d, key) == [x \in DOMAIN d \ {key} |-> d[x]]

Range(s) == {s[i] : i \in 1..Len(s)}

DictKeys(d) == {d[i].k : i \in 1..Len(d)}

DictHas(d, key) == key \in DictKeys(d)

DictIndex(d, key) == CHOOSE i \in 1..Len(d) : d[i].k = key

DictGet(d, key) == d[DictIndex(d, key)].v

\* d[key] = value: an existing key keeps its position, a new key goes last
DictSet(d, key, value) ==
    IF DictHas(d, key)
    THEN [d EXCEPT ![DictIndex(d, key)] = [k |-> key, v |-> value]]
    ELSE Append(d, [k |-> key, v |-> value])

\* s[:n]
Take(s, n) == SubSeq(s, 1, IF Len(s) < n THEN Len(s) ELSE n)

(***************************************************************************)
(* Inputs.                                                                 *)
(***************************************************************************)
Users == {"U1", "U2"}

\* the characters of the strings that are sliced and hashed: two messages
\* that agree on their first 100 characters and differ after them, and a
\* short one
Chars(str) ==
    CASE str = "long-a" -> [i \in 1..(PrefixLen + 1) |-> IF i <= PrefixLen THEN 1 ELSE 2]
      [] str = "long-b" -> [i \in 1..(PrefixLen + 1) |-> IF i <= PrefixLen THEN 1 ELSE 3]
      [] str = "short-c" -> <<4, 5>>
      [] str = "C1" -> <<6>>
      [] str = "C2" -> <<7>>
      [] str = "1000" -> <<8>>
      [] str = "2000" -> <<9>>
      [] str = "" -> <<>>
      [] str = "T1" -> <<84, 49>>
      [] str = "T2" -> <<84, 50>>
      [] str = "PCB" -> <<80, 67, 66>>
      [] str = "pcb" -> <<112, 99, 98>>
      [] str = "Hot" -> <<72, 111, 116>>
      [] str = "hot" -> <<104, 111, 116>>
      [] str = "pcb hot" -> <<112, 99, 98, 32, 104, 111, 116>>
      [] str = "fan" -> <<102, 97, 110>>
      \* message texts
      [] str = "The PCB has a bug" ->
           <<84, 104, 101, 32, 80, 67, 66, 32, 104, 97, 115, 32, 97, 32, 98, 117, 103>>
      [] str = "Let's grab lunch today" ->
           <<76, 101, 116, 39, 115, 32, 103, 114, 97, 98, 32, 108, 117, 110, 99, 104, 32,
             116, 111, 100, 97, 121>>
      [] str = "Critical system failure" ->
           <<67, 114, 105, 116, 105, 99, 97, 108, 32, 115, 121, 115, 116, 101, 109, 32,
             102, 97, 105, 108, 117, 114, 101>>
      [] str = "Minor cosmetic problem" ->
           <<77, 105, 110, 111, 114, 32, 99, 111, 115, 109, 101, 116, 105, 99, 32, 112,
             114, 111, 98, 108, 101, 109>>
      [] str = "Regular bug report" ->
           <<82, 101, 103, 117, 108, 97, 114, 32, 98, 117, 103, 32, 114, 101, 112, 111,
             114, 116>>
      [] str = "urgent: low priority bug" ->
           <<117, 114, 103, 101, 110, 116, 58, 32, 108, 111, 119, 32, 112, 114, 105, 111,
             114, 105, 116, 121, 32, 98, 117, 103>>
      [] str = "High load, minor lag" ->
           <<72, 105, 103, 104, 32, 108, 111, 97, 100, 44, 32, 109, 105, 110, 111, 114,
             32, 108, 97, 103>>
      [] str = "it is slow" -> <<105, 116, 32, 105, 115, 32, 115, 108, 111, 119>>
      [] str = "<@U1> see http://x.io/a the fan is broken" ->
           <<60, 64, 85, 49, 62, 32, 115, 101, 101, 32, 104, 116, 116, 112, 58, 47, 47,
             120, 46, 105, 111, 47, 97, 32, 116, 104, 101, 32, 102, 97, 110, 32, 105,
             115, 32, 98, 114, 111, 107, 101, 110>>
      [] str = "bug one two three four five six seven eight nine ten eleven twelve" ->
           <<98, 117, 103, 32, 111, 110, 101, 32, 116, 119, 111, 32, 116, 104, 114, 101,
             101, 32, 102, 111, 117, 114, 32, 102, 105, 118, 101, 32, 115, 105, 120, 32,
             115, 101, 118, 101, 110, 32, 101, 105, 103, 104, 116, 32, 110, 105, 110,
             101, 32, 116, 101, 110, 32, 101, 108, 101, 118, 101, 110, 32, 116, 119, 101,
             108, 118, 101>>
      \* the keywords of issue_patterns
      [] str = "bug" -> <<98, 117, 103>>
      [] str = "bugs" -> <<98, 117, 103, 115>>
      [] str = "buggy" -> <<98, 117, 103, 103, 121>>
      [] str = "defect" -> <<100, 101, 102, 101, 99, 116>>
      [] str = "error" -> <<101, 114, 114, 111, 114>>
      [] str = "broken" -> <<98, 114, 111, 107, 101, 110>>
      [] str = "failure" -> <<102, 97, 105, 108, 117, 114, 101>>
      [] str = "failed" -> <<102, 97, 105, 108, 101, 100>>
      [] str = "failing" -> <<102, 97, 105, 108, 105, 110, 103>>
      [] str = "fails" -> <<102, 97, 105, 108, 115>>
      [] str = "crash" -> <<99, 114, 97, 115, 104>>
      [] str = "crashed" -> <<99, 114, 97, 115, 104, 101, 100>>
      [] str = "crashing" -> <<99, 114, 97, 115, 104, 105, 110, 103>>
      [] str = "problem" -> <<112, 114, 111, 98, 108, 101, 109>>
      [] str = "problems" -> <<112, 114, 111, 98, 108, 101, 109, 115>>
      [] str = "issue" -> <<105, 115, 115, 117, 101>>
      [] str = "issues" -> <<105, 115, 115, 117, 101, 115>>
      [] str = "trouble" -> <<116, 114, 111, 117, 98, 108, 101>>
      [] str = "wrong" -> <<119, 114, 111, 110, 103>>
      [] str = "malfunction" -> <<109, 97, 108, 102, 117, 110, 99, 116, 105, 111, 110>>
      [] str = "not working" -> <<110, 111, 116, 32, 119, 111, 114, 107, 105, 110, 103>>
      [] str = "doesn't work" -> <<100, 111, 101, 115, 110, 39, 116, 32, 119, 111, 114, 107>>
      [] str = "stopped working" ->
           <<115, 116, 111, 112, 112, 101, 100, 32, 119, 111, 114, 107, 105, 110, 103>>
      [] str = "slow" -> <<115, 108, 111, 119>>
      [] str = "performance" -> <<112, 101, 114, 102, 111, 114, 109, 97, 110, 99, 101>>
      [] str = "lag" -> <<108, 97, 103>>
      [] str = "timeout" -> <<116, 105, 109, 101, 111, 117, 116>>
      [] str = "bottleneck" -> <<98, 111, 116, 116, 108, 101, 110, 101, 99, 107>>
      [] str = "critical" -> <<99, 114, 105, 116, 105, 99, 97, 108>>
      [] str = "urgent" -> <<117, 114, 103, 101, 110, 116>>
      [] str = "emergency" -> <<101, 109, 101, 114, 103, 101, 110, 99, 121>>
      [] str = "blocker" -> <<98, 108, 111, 99, 107, 101, 114>>
      [] str = "show-stopper" -> <<115, 104, 111, 119, 45, 115, 116, 111, 112, 112, 101, 114>>
      [] str = "showstopper" -> <<115, 104, 111, 119, 115, 116, 111, 112, 112, 101, 114>>
      [] str = "regression" -> <<114, 101, 103, 114, 101, 115, 115, 105, 111, 110>>
      [] str = "broke" -> <<98, 114, 111, 107, 101>>
      [] str = "used to work" -> <<117, 115, 101, 100, 32, 116, 111, 32, 119, 111, 114, 107>>
      [] str = "was working" -> <<119, 97, 115, 32, 119, 111, 114, 107, 105, 110, 103>>
      [] str = "hardware issue" ->
           <<104, 97, 114, 100, 119, 97, 114, 101, 32, 105, 115, 115, 117, 101>>
      [] str = "component failure" ->
           <<99, 111, 109, 112, 111, 110, 101, 110, 116, 32, 102, 97, 105, 108, 117, 114,
             101>>
      [] str = "short circuit" -> <<115, 104, 111, 114, 116, 32, 99, 105, 114, 99, 117, 105, 116>>
      [] str = "thermal" -> <<116, 104, 101, 114, 109, 97, 108>>
      [] str = "firmware bug" -> <<102, 105, 114, 109, 119, 97, 114, 101, 32, 98, 117, 103>>
      [] str = "software issue" ->
           <<115, 111, 102, 116, 119, 97, 114, 101, 32, 105, 115, 115, 117, 101>>
      [] str = "code problem" -> <<99, 111, 100, 101, 32, 112, 114, 111, 98, 108, 101, 109>>
      [] str = "logic error" -> <<108, 111, 103, 105, 99, 32, 101, 114, 114, 111, 114>>
      \* the words of extract_issue_priority
      [] str = "high" -> <<104, 105, 103, 104>>
      [] str = "important" -> <<105, 109, 112, 111, 114, 116, 97, 110, 116>>
      [] str = "asap" -> <<97, 115, 97, 112>>
      [] str = "priority" -> <<112, 114, 105, 111, 114, 105, 116, 121>>
      [] str = "low" -> <<108, 111, 119>>
      [] str = "minor" -> <<109, 105, 110, 111, 114>>
      [] str = "cosmetic" -> <<99, 111, 115, 109, 101, 116, 105, 99>>
      [] str = "nice to have" -> <<110, 105, 99, 101, 32, 116, 111, 32, 104, 97, 118, 101>>
      \* skip_words
      [] str = "the" -> <<116, 104, 101>>
      [] str = "a" -> <<97>>
      [] str = "an" -> <<97, 110>>
      [] str = "is" -> <<105, 115>>
      [] str = "was" -> <<119, 97, 115>>
      [] str = "are" -> <<97, 114, 101>>
      [] str = "were" -> <<119, 101, 114, 101>>
      [] str = "i" -> <<105>>
      [] str = "we" -> <<119, 101>>
      [] str = "you" -> <<121, 111, 117>>
      [] str = "they" -> <<116, 104, 101, 121>>
      [] str = "it" -> <<105, 116>>
      [] str = "this" -> <<116, 104, 105, 115>>
      [] str = "that" -> <<116, 104, 97, 116>>
      \* the fallback of summarize
      [] str = "Error generating summary. Please try again later." ->
           <<69, 114, 114, 111, 114, 32, 103, 101, 110, 101, 114, 97, 116, 105, 110, 103,
             32, 115, 117, 109, 109, 97, 114, 121, 46, 32, 80, 108, 101, 97, 115, 101,
             32, 116, 114, 121, 32, 97, 103, 97, 105, 110, 32, 108, 97, 116, 101, 114,
             46>>
      [] str = "Error generating summary" ->
           <<69, 114, 114, 111, 114, 32, 103, 101, 110, 101, 114, 97, 116, 105, 110, 103,
             32, 115, 117, 109, 109, 97, 114, 121>>
      \* literals of generate_issue_title
      [] str = "..." -> <<46, 46, 46>>
      [] str = "http" -> <<104, 116, 116, 112>>
      [] str = "s" -> <<115>>
      [] str = "://" -> <<58, 47, 47>>
      [] str = " " -> <<32>>

\* candidates as the callers build them: a detector candidate, the same
\* message with a different tail and a caller-supplied status, and a
\* minimal one
Cand1 ==
    [title |-> "T1", original_text |-> "long-a", channel |-> "C1",
     reporter |-> "john", timestamp |-> "1000", message_ts |-> "1000",
     priority |-> "high", tags |-> <<"bug">>]
Cand2 ==
    [title |-> "T2", original_text |-> "long-b", channel |-> "C1",
     reporter |-> "jane", timestamp |-> "1000", status |-> "resolved"]
Cand3 ==
    [original_text |-> "short-c", channel |-> "C2", timestamp |-> "2000"]

Candidates == {Cand1, Cand2, Cand3}

\* candidates with text to search for: one with a title, a description
\* and a text, and one that carries a priority word instead of a priority
\* level
CandPcb ==
    [title |-> "PCB", description |-> "Hot", original_text |-> "pcb",
     channel |-> "C1", reporter |-> "john", timestamp |-> "1000",
     priority |-> "low"]
CandFan ==
    [title |-> "Hot", original_text |-> "fan", channel |-> "C2",
     reporter |-> "jane", timestamp |-> "2000", priority |-> "urgent"]

QueryCandidates == {CandPcb, CandFan, Cand3}

Statuses == {"open", "investigating", "resolved", "closed"}
\* update_issue_status takes any string
StatusArgs == {"open", "investigating", "closed", "wontfix"}
UpdatedByArgs == {None, "U2"}
MessageArgs == {[text |-> "short-c", user |-> "jane", channel |-> "C1",
                 timestamp |-> "2000", message_ts |-> "2000"]}

(***************************************************************************)
(* _generate_issue_id: md5(text[:100] + channel + timestamp)[:8].         *)
(* The digest is a deterministic function of the concatenated content;     *)
(* it is computed here as two position-weighted 16-bit sums printed as     *)
(* 8 hex digits.                                                           *)
(***************************************************************************)
RECURSIVE Fold(_, _, _, _)
Fold(s, m, lo, hi) ==
    IF lo > hi THEN 0
    ELSE IF lo = hi THEN s[lo] * (((lo * m) % 251) + 1)
    ELSE LET mid == (lo + hi) \div 2
         IN  (Fold(s, m, lo, mid) + Fold(s, m, mid + 1, hi)) % 65536

Hex4(n) == <<(n \div 4096) % 16, (n \div 256) % 16, (n \div 16) % 16, n % 16>>

Md5Hex8(content) ==
    Hex4(Fold(content, 31, 1, Len(content))) \o Hex4(Fold(content, 37, 1, Len(content)))

\* _generate_issue_id hashing the whole text
_generate_issue_id_WholeText(message_text, channel, timestamp) ==
    Md5Hex8(Chars(message_text) \o Chars(channel) \o Chars(timestamp))

_generate_issue_id(message_text, channel, timestamp) ==
    Md5Hex8(Take(Chars(message_text), PrefixLen) \o Chars(channel) \o Chars(timestamp))

\* the id create_issue derives from a candidate
IssueIdOf(issue_data) ==
    _generate_issue_id(Get(issue_data, "original_text", ""),
                       Get(issue_data, "channel", ""),
                       Get(issue_data, "timestamp", ""))

CandidateId == [c \in Candidates \cup QueryCandidates |-> IssueIdOf(c)]

IssueIds == {CandidateId[c] : c \in Candidates}

QueryIssueIds == {CandidateId[c] : c \in QueryCandidates}

(***************************************************************************)
(* The store.                                                              *)
(***************************************************************************)
\* self.settings.get(user_id, {})
get_user_settings(s, user_id) == Get(s, user_id, EmptyMap)

\* get_user_issues(user_id) without a filter
UserIssues(s, user_id) == Get(get_user_settings(s, user_id), "issues", EmptyDict)

get_user_projects(s, user_id) == Get(get_user_settings(s, user_id), "projects", EmptyMap)

\* get_user_issues taking "open", the default status, for no filter
get_user_issues_OpenIsNoFilter(s, user_id, status) ==
    LET issues == UserIssues(s, user_id)
    IN  IF status # None /\ status # "" /\ status # "open"
        THEN SelectSeq(issues, LAMBDA e : e.v.status = status)
        ELSE issues

\* get_user_issues(user_id, status): "if status:" is false for None and ""
get_user_issues(s, user_id, status) ==
    LET issues == UserIssues(s, user_id)
    IN  IF status # None /\ status # ""
        THEN SelectSeq(issues, LAMBDA e : e.v.status = status)
        ELSE issues

\* issues.get(issue_id): the set of the record found, empty when absent
get_issue(s, user_id, issue_id) ==
    LET issues == UserIssues(s, user_id)
    IN  IF DictHas(issues, issue_id) THEN {DictGet(issues, issue_id)} ELSE {}

\* the guard of update_issue_status and add_related_message
HasIssue(s, user_id, issue_id) ==
    /\ user_id \in DOMAIN s
    /\ "issues" \in DOMAIN s[user_id]
    /\ DictHas(s[user_id]["issues"], issue_id)

RECURSIVE SumLen(_, _)
SumLen(d, field) ==
    IF d = <<>> THEN 0
    ELSE Len(Head(d).v[field]) + SumLen(Tail(d), field)

\* the number of history entries, related messages and projects in a store
RECURSIVE StoreSizeOf(_, _)
StoreSizeOf(s, users) ==
    IF users = {} THEN 0
    ELSE LET u == CHOOSE x \in users : TRUE
         IN  SumLen(UserIssues(s, u), "status_history")
               + SumLen(UserIssues(s, u), "related_messages")
               + Cardinality(DOMAIN get_user_projects(s, u))
               + StoreSizeOf(s, users \ {u})

StoreSize(s) == StoreSizeOf(s, DOMAIN s)

(***************************************************************************)
(* _save_settings: open(file, 'w') and json.dump; an IOError is caught.    *)
(* The variable disk is the condition of the file system: on a read-only   *)
(* one open fails and the file stays as it was, on a full one the write    *)
(* fails after open has truncated the file.                                *)
(***************************************************************************)
RECURSIVE SetToSeq(_)
SetToSeq(keys) ==
    IF keys = {} THEN <<>>
    ELSE LET key == CHOOSE x \in keys : TRUE
         IN  <<key>> \o SetToSeq(keys \ {key})

\* json.dump writes a dict as an object, the sequence of its members; the
\* issues of a user are already kept as the sequence of their entries
DumpIssues(issues) ==
    [i \in 1..Len(issues) |-> [name |-> issues[i].k, value |-> issues[i].v]]

DumpProjects(projects) ==
    LET names == SetToSeq(DOMAIN projects)
    IN  [i \in 1..Len(names) |-> [name |-> names[i], value |-> projects[names[i]]]]

DumpUser(us) ==
    LET sections == SetToSeq(DOMAIN us)
    IN  [i \in 1..Len(sections) |->
            [name |-> sections[i],
             value |-> IF sections[i] = "issues" THEN DumpIssues(us[sections[i]])
                       ELSE DumpProjects(us[sections[i]])]]

Dump(s) ==
    LET users == SetToSeq(DOMAIN s)
    IN  [i \in 1..Len(users) |-> [name |-> users[i], value |-> DumpUser(s[users[i]])]]

\* json.load builds a dict from the members of an object
Member(members, name) == CHOOSE i \in 1..Len(members) : members[i].name = name

LoadIssues(members) ==
    [i \in 1..Len(members) |-> [k |-> members[i].name, v |-> members[i].value]]

LoadProjects(members) ==
    [name \in {members[i].name : i \in 1..Len(members)} |->
        members[Member(members, name)].value]

LoadUser(members) ==
    [name \in {members[i].name : i \in 1..Len(members)} |->
        IF name = "issues" THEN LoadIssues(members[Member(members, name)].value)
        ELSE LoadProjects(members[Member(members, name)].value)]

Load(members) ==
    [name \in {members[i].name : i \in 1..Len(members)} |->
        LoadUser(members[Member(members, name)].value)]

\* what is at the path of the settings file: nothing, a complete document,
\* text that is no JSON document (an empty or a truncated file), bytes that
\* are no text in the encoding open() reads with, or something open() fails
\* on, such as a directory
Absent == [kind |-> "absent", data |-> <<>>]
Corrupt == [kind |-> "corrupt", data |-> <<>>]
Undecodable == [kind |-> "undecodable", data |-> <<>>]
Unopenable == [kind |-> "unopenable", data |-> <<>>]
Json(s) == [kind |-> "json", data |-> Dump(s)]

DiskStates == {"writable", "readonly", "full"}

\* the issues of a and those of b that a does not have
MergeIssues(a, b) == a \o SelectSeq(b, LAMBDA e : ~DictHas(a, e.k))

\* _save_settings writing what is in memory on top of what is in the file
_save_settings_Merges(s, f, d) ==
    IF f.kind = "unopenable" THEN [saved |-> "failed", file |-> f]
    ELSE IF d = "writable"
    THEN LET old == IF f.kind = "json" THEN Load(f.data) ELSE EmptyMap
             merged ==
                 [u \in DOMAIN s \cup DOMAIN old |->
                     IF u \notin DOMAIN old THEN s[u]
                     ELSE IF u \notin DOMAIN s THEN old[u]
                     ELSE [sec \in DOMAIN s[u] |->
                             IF sec = "issues" /\ "issues" \in DOMAIN old[u]
                             THEN MergeIssues(s[u][sec], old[u][sec])
                             ELSE s[u][sec]]]
         IN  [saved |-> "ok", file |-> Json(merged)]
    ELSE IF d = "readonly" THEN [saved |-> "failed", file |-> f]
    ELSE [saved |-> "failed", file |-> Corrupt]

_save_settings(s, f, d) ==
    IF f.kind = "unopenable" THEN [saved |-> "failed", file |-> f]
    ELSE IF d = "writable" THEN [saved |-> "ok", file |-> Json(s)]
    ELSE IF d = "readonly" THEN [saved |-> "failed", file |-> f]
    ELSE [saved |-> "failed", file |-> Corrupt]

\* _load_settings catches json.JSONDecodeError and IOError; the
\* UnicodeDecodeError of a file that is no text is neither
_load_settings_raises(f) == f.kind = "undecodable"

\* _load_settings: {} when the file is absent, cannot be opened or does not
\* parse
_load_settings(f) == IF f.kind = "json" THEN Load(f.data) ELSE EmptyMap

\* the call just made: its name, its user, the issue id or the project name
\* it was about (for create_issue the id it returned), what it returned
\* ("id": the issue_id) and whether it called _save_settings
NoId == <<>>
Call(op, user_id, issue_id, project_name, ret, saved) ==
    [op |-> op, user |-> user_id, issue_id |-> issue_id,
     project_name |-> project_name, ret |-> ret, saved |-> saved]

\* self.settings[user_id]["issues"][issue_id] = issue, creating the user
\* record and the section when missing
PutIssue(s, user_id, issue_id, issue) ==
    LET us == get_user_settings(s, user_id)
    IN  MapSet(s, user_id,
               MapSet(us, "issues", DictSet(Get(us, "issues", EmptyDict), issue_id, issue)))

\* self.settings[user_id]["projects"][project_name] = project, likewise
\* a project stored under the name for every user of the store
PutProject_Shared(s, user_id, project_name, project) ==
    [u \in DOMAIN s \cup {user_id} |->
        LET us == get_user_settings(s, u)
        IN  MapSet(us, "projects",
                   MapSet(Get(us, "projects", EmptyMap), project_name, project))]

PutProject(s, user_id, project_name, project) ==
    LET us == get_user_settings(s, user_id)
    IN  MapSet(s, user_id,
               MapSet(us, "projects",
                      MapSet(Get(us, "projects", EmptyMap), project_name, project)))

(***************************************************************************)
(* Issue tracking.                                                         *)
(***************************************************************************)
\* the record create_issue stores; t1, t2, t3 are the three readings of
\* datetime.now() in evaluation order
NewIssue(user_id, issue_data, issue_id, t1, t2, t3) ==
    [id |-> issue_id,
     title |-> Get(issue_data, "title", ""),
     description |-> Get(issue_data, "description", ""),
     original_text |-> Get(issue_data, "original_text", ""),
     channel |-> Get(issue_data, "channel", ""),
     reporter |-> Get(issue_data, "reporter", ""),
     timestamp |-> Get(issue_data, "timestamp", ""),
     message_ts |-> Get(issue_data, "message_ts", ""),
     status |-> Get(issue_data, "status", "open"),
     priority |-> Get(issue_data, "priority", "medium"),
     tags |-> Get(issue_data, "tags", <<>>),
     related_messages |-> <<>>,
     status_history |-> <<[status |-> "open", timestamp |-> t1, user |-> user_id]>>,
     created_at |-> t2,
     updated_at |-> t3]

\* create_issue keeping the history and the related messages of an issue
\* that is already stored under the id
CreateIssueStore_Merge(s, user_id, issue_data, t1, t2, t3) ==
    LET issue_id == CandidateId[issue_data]
        new == NewIssue(user_id, issue_data, issue_id, t1, t2, t3)
    IN  PutIssue(s, user_id, issue_id,
                 IF get_issue(s, user_id, issue_id) = {} THEN new
                 ELSE LET old == DictGet(UserIssues(s, user_id), issue_id)
                      IN  [new EXCEPT !.status_history = old.status_history,
                                      !.related_messages = old.related_messages])

CreateIssueStore(s, user_id, issue_data, t1, t2, t3) ==
    LET issue_id == CandidateId[issue_data]
    IN  PutIssue(s, user_id, issue_id,
              NewIssue(user_id, issue_data, issue_id, t1, t2, t3))

create_issue(user_id, issue_data) ==
    \E t1 \in clock..MaxClock : \E t2 \in t1..MaxClock : \E t3 \in t2..MaxClock :
        LET s2 == CreateIssueStore(settings, user_id, issue_data, t1, t2, t3)
        IN  /\ StoreSize(s2) <= MaxStore
            /\ settings' = s2
            /\ clock' = t3
            /\ UNCHANGED disk
            /\ LET o == _save_settings(s2, file, disk) IN
                 /\ file' = o.file
                 /\ last' = Call("create_issue", user_id, CandidateId[issue_data], "",
                                 "id", o.saved)

\* update_issue_status recording nothing when the status does not change
UpdatedIssue_SkipSame(issue, user_id, new_status, updated_by, t1, t2) ==
    LET old_status == issue.status
    IN  IF new_status = old_status THEN [issue EXCEPT !.updated_at = t1]
        ELSE [issue EXCEPT
                !.status = new_status,
                !.updated_at = t1,
                !.status_history = Append(@,
                    [status |-> new_status,
                     timestamp |-> t2,
                     user |-> IF updated_by \in {None, ""} THEN user_id ELSE updated_by,
                     previous_status |-> old_status])]

\* update_issue_status assigning the history instead of appending to it
UpdatedIssue_ResetHistory(issue, user_id, new_status, updated_by, t1, t2) ==
    LET old_status == issue.status
    IN  [issue EXCEPT
           !.status = new_status,
           !.updated_at = t1,
           !.status_history =
               <<[status |-> new_status,
                  timestamp |-> t2,
                  user |-> IF updated_by \in {None, ""} THEN user_id ELSE updated_by,
                  previous_status |-> old_status]>>]

\* update_issue_status ignoring updated_by
UpdatedIssue_CallerOnly(issue, user_id, new_status, updated_by, t1, t2) ==
    LET old_status == issue.status
    IN  [issue EXCEPT
           !.status = new_status,
           !.updated_at = t1,
           !.status_history = Append(@,
               [status |-> new_status,
                timestamp |-> t2,
                user |-> user_id,
                previous_status |-> old_status])]

\* the issue after update_issue_status; t1 is the reading for updated_at,
\* t2 the one for the history entry
UpdatedIssue(issue, user_id, new_status, updated_by, t1, t2) ==
    LET old_status == issue.status
    IN  [issue EXCEPT
           !.status = new_status,
           !.updated_at = t1,
           !.status_history = Append(@,
               [status |-> new_status,
                timestamp |-> t2,
                user |-> IF updated_by \in {None, ""} THEN user_id ELSE updated_by,
                previous_status |-> old_status])]

\* the not-found path saving before it returns False
IssueNotFound_Saves(op, user_id, issue_id) ==
    /\ LET o == _save_settings(settings, file, disk) IN
         /\ file' = o.file
         /\ last' = Call(op, user_id, issue_id, "", "False", o.saved)
    /\ UNCHANGED <<settings, disk, clock>>

\* "return False" of update_issue_status and add_related_message
IssueNotFound(op, user_id, issue_id) ==
    /\ last' = Call(op, user_id, issue_id, "", "False", "no")
    /\ UNCHANGED <<settings, file, disk, clock>>

update_issue_status(user_id, issue_id, new_status, updated_by) ==
    IF HasIssue(settings, user_id, issue_id)
    THEN \E t1 \in clock..MaxClock : \E t2 \in t1..MaxClock :
           LET issue == DictGet(UserIssues(settings, user_id), issue_id)
               s2 == PutIssue(settings, user_id, issue_id,
                           UpdatedIssue(issue, user_id, new_status, updated_by, t1, t2))
           IN  /\ StoreSize(s2) <= MaxStore
               /\ settings' = s2
               /\ clock' = t2
               /\ UNCHANGED disk
               /\ LET o == _save_settings(s2, file, disk) IN
                    /\ file' = o.file
                    /\ last' = Call("update_issue_status", user_id, issue_id, "",
                                    "True", o.saved)
    ELSE IssueNotFound("update_issue_status", user_id, issue_id)

RelatedMessage(message_data, t) ==
    [text |-> Get(message_data, "text", ""),
     user |-> Get(message_data, "user", ""),
     channel |-> Get(message_data, "channel", ""),
     timestamp |-> Get(message_data, "timestamp", ""),
     message_ts |-> Get(message_data, "message_ts", ""),
     added_at |-> t]

\* add_related_message putting the new record in front
WithRelated_Prepends(issue, message_data, t1, t2) ==
    [issue EXCEPT
       !.related_messages = <<RelatedMessage(message_data, t1)>> \o @,
       !.updated_at = t2]

WithRelated(issue, message_data, t1, t2) ==
    [issue EXCEPT
       !.related_messages = Append(@, RelatedMessage(message_data, t1)),
       !.updated_at = t2]

add_related_message(user_id, issue_id, message_data) ==
    IF HasIssue(settings, user_id, issue_id)
    THEN \E t1 \in clock..MaxClock : \E t2 \in t1..MaxClock :
           LET issue == DictGet(UserIssues(settings, user_id), issue_id)
               s2 == PutIssue(settings, user_id, issue_id,
                           WithRelated(issue, message_data, t1, t2))
           IN  /\ StoreSize(s2) <= MaxStore
               /\ settings' = s2
               /\ clock' = t2
               /\ UNCHANGED disk
               /\ LET o == _save_settings(s2, file, disk) IN
                    /\ file' = o.file
                    /\ last' = Call("add_related_message", user_id, issue_id, "",
                                    "True", o.saved)
    ELSE IssueNotFound("add_related_message", user_id, issue_id)

\* del self.settings[user_id], saved only when the user was there
clear_user_settings(user_id) ==
    IF user_id \in DOMAIN settings
    THEN LET s2 == MapDel(settings, user_id)
         IN  /\ settings' = s2
             /\ LET o == _save_settings(s2, file, disk) IN
                  /\ file' = o.file
                  /\ last' = Call("clear_user_settings", user_id, NoId, "", None, o.saved)
             /\ UNCHANGED <<disk, clock>>
    ELSE /\ last' = Call("clear_user_settings", user_id, NoId, "", None, "no")
         /\ UNCHANGED <<settings, file, disk, clock>>

(***************************************************************************)
(* Project tracking.                                                       *)
(***************************************************************************)
ProjectNames == {"P1"}
\* an optional list argument: the set of the list given, empty when omitted
Omitted == {}
The(opt) == CHOOSE x \in opt : TRUE

NewProject(channels, keywords, t) ==
    [channels |-> channels,
     keywords |-> IF keywords = Omitted THEN <<>> ELSE The(keywords),
     created_at |-> t,
     active |-> TRUE]

\* create_project laying the new fields over a project that is already
\* stored under the name, whose active flag it keeps
create_project_KeepsActive(user_id, project_name, channels, keywords) ==
    \E t \in clock..MaxClock :
        LET projects == get_user_projects(settings, user_id)
            new == NewProject(channels, keywords, t)
            s2 == PutProject(settings, user_id, project_name,
                        IF project_name \in DOMAIN projects
                        THEN [new EXCEPT !.active = projects[project_name].active]
                        ELSE new)
        IN  /\ StoreSize(s2) <= MaxStore
            /\ settings' = s2
            /\ clock' = t
            /\ UNCHANGED disk
            /\ LET o == _save_settings(s2, file, disk) IN
                 /\ file' = o.file
                 /\ last' = Call("create_project", user_id, NoId, project_name, None, o.saved)

create_project(user_id, project_name, channels, keywords) ==
    \E t \in clock..MaxClock :
        LET s2 == PutProject(settings, user_id, project_name,
                        NewProject(channels, keywords, t))
        IN  /\ StoreSize(s2) <= MaxStore
            /\ settings' = s2
            /\ clock' = t
            /\ UNCHANGED disk
            /\ LET o == _save_settings(s2, file, disk) IN
                 /\ file' = o.file
                 /\ last' = Call("create_project", user_id, NoId, project_name, None, o.saved)

\* the guard shared by the project mutators
HasProject(s, user_id, project_name) ==
    /\ user_id \in DOMAIN s
    /\ "projects" \in DOMAIN s[user_id]
    /\ project_name \in DOMAIN s[user_id]["projects"]

get_project(s, user_id, project_name) ==
    LET projects == get_user_projects(s, user_id)
    IN  IF project_name \in DOMAIN projects THEN {projects[project_name]} ELSE {}

\* a mutator that takes the change back when the file could not be written
ProjectStep_RollsBack(op, user_id, project_name, new, ret) ==
    LET s2 == PutProject(settings, user_id, project_name, new)
        o == _save_settings(s2, file, disk)
    IN  /\ settings' = IF o.saved = "ok" THEN s2 ELSE settings
        /\ file' = o.file
        /\ last' = Call(op, user_id, NoId, project_name, ret, o.saved)
        /\ UNCHANGED <<disk, clock>>

\* a mutator that stores a changed project and saves
ProjectStep(op, user_id, project_name, new, ret) ==
    /\ settings' = PutProject(settings, user_id, project_name, new)
    /\ LET o == _save_settings(settings', file, disk) IN
         /\ file' = o.file
         /\ last' = Call(op, user_id, NoId, project_name, ret, o.saved)
    /\ UNCHANGED <<disk, clock>>

\* the not-found path of the project mutators writing the file
ProjectNoop_Saves(op, user_id, project_name) ==
    /\ LET o == _save_settings(settings, file, disk) IN
         /\ file' = o.file
         /\ last' = Call(op, user_id, NoId, project_name, None, o.saved)
    /\ UNCHANGED <<settings, disk, clock>>

ProjectNoop(op, user_id, project_name) ==
    /\ last' = Call(op, user_id, NoId, project_name, None, "no")
    /\ UNCHANGED <<settings, file, disk, clock>>

update_project_channels(user_id, project_name, channels) ==
    IF HasProject(settings, user_id, project_name)
    THEN ProjectStep("update_project_channels", user_id, project_name,
                     [get_user_projects(settings, user_id)[project_name]
                        EXCEPT !.channels = channels], None)
    ELSE ProjectNoop("update_project_channels", user_id, project_name)

update_project_keywords(user_id, project_name, keywords) ==
    IF HasProject(settings, user_id, project_name)
    THEN ProjectStep("update_project_keywords", user_id, project_name,
                     [get_user_projects(settings, user_id)[project_name]
                        EXCEPT !.keywords = keywords], None)
    ELSE ProjectNoop("update_project_keywords", user_id, project_name)

\* delete_project without the call of _save_settings
delete_project_NoSave(user_id, project_name) ==
    IF HasProject(settings, user_id, project_name)
    THEN LET us == settings[user_id]
             s2 == MapSet(settings, user_id,
                          MapSet(us, "projects", MapDel(us["projects"], project_name)))
         IN  /\ settings' = s2
             /\ last' = Call("delete_project", user_id, NoId, project_name, None, "no")
             /\ UNCHANGED <<file, disk, clock>>
    ELSE ProjectNoop("delete_project", user_id, project_name)

delete_project(user_id, project_name) ==
    IF HasProject(settings, user_id, project_name)
    THEN LET us == settings[user_id]
             s2 == MapSet(settings, user_id,
                          MapSet(us, "projects", MapDel(us["projects"], project_name)))
         IN  /\ settings' = s2
             /\ LET o == _save_settings(s2, file, disk) IN
                  /\ file' = o.file
                  /\ last' = Call("delete_project", user_id, NoId, project_name, None, o.saved)
             /\ UNCHANGED <<disk, clock>>
    ELSE ProjectNoop("delete_project", user_id, project_name)

\* toggle_project_status returning the flag as it was before the flip
toggle_project_status_ReturnsOld(user_id, project_name) ==
    IF HasProject(settings, user_id, project_name)
    THEN LET project == get_user_projects(settings, user_id)[project_name]
             current_status == project.active
         IN  ProjectStep("toggle_project_status", user_id, project_name,
                         [project EXCEPT !.active = ~current_status],
                         IF current_status THEN "True" ELSE "False")
    ELSE ProjectNoop("toggle_project_status", user_id, project_name)

toggle_project_status(user_id, project_name) ==
    IF HasProject(settings, user_id, project_name)
    THEN LET project == get_user_projects(settings, user_id)[project_name]
             current_status == project.active
         IN  ProjectStep("toggle_project_status", user_id, project_name,
                         [project EXCEPT !.active = ~current_status],
                         IF ~current_status THEN "True" ELSE "False")
    ELSE ProjectNoop("toggle_project_status", user_id, project_name)

(***************************************************************************)
(* The store after construction on a missing file, and its operations.     *)
(***************************************************************************)
\* the second instance: its self.settings, and which of the two instances
\* wrote the file last
NoOther == [settings |-> EmptyMap, writer |-> "nobody"]

Init ==
    /\ file = Absent
    /\ disk = "writable"
    /\ settings = _load_settings(file)
    /\ clock = MaxClock
    /\ last = Call("__init__", "", NoId, "", None, "no")
    /\ other = NoOther

\* In Spec the projects are those of one user under one name; the issue
\* operations take every user, candidate and status.
ProjectUsers == {"U1"}

CreateIssue ==
    /\ \E u \in Users, c \in Candidates : create_issue(u, c)
    /\ UNCHANGED other

UpdateIssueStatus ==
    /\ \E u \in Users, i \in IssueIds, st \in StatusArgs, by \in UpdatedByArgs : update_issue_status(u, i, st, by)
    /\ UNCHANGED other

AddRelatedMessage ==
    /\ \E u \in Users, i \in IssueIds, m \in MessageArgs : add_related_message(u, i, m)
    /\ UNCHANGED other

ClearUserSettings ==
    /\ \E u \in Users : clear_user_settings(u)
    /\ UNCHANGED other

CreateProject ==
    /\ \E u \in ProjectUsers, n \in ProjectNames : create_project(u, n, <<"C1">>, Omitted)
    /\ UNCHANGED other

UpdateProjectChannels ==
    /\ \E u \in ProjectUsers, n \in ProjectNames : update_project_channels(u, n, <<"C2", "C2">>)
    /\ UNCHANGED other

UpdateProjectKeywords ==
    /\ \E u \in ProjectUsers, n \in ProjectNames : update_project_keywords(u, n, <<"pcb", "pcb">>)
    /\ UNCHANGED other

DeleteProject ==
    /\ \E u \in ProjectUsers, n \in ProjectNames : delete_project(u, n)
    /\ UNCHANGED other

ToggleProjectStatus ==
    /\ \E u \in ProjectUsers, n \in ProjectNames : toggle_project_status(u, n)
    /\ UNCHANGED other

Next ==
    \/ CreateIssue
    \/ UpdateIssueStatus
    \/ AddRelatedMessage
    \/ ClearUserSettings
    \/ CreateProject
    \/ UpdateProjectChannels
    \/ UpdateProjectKeywords
    \/ DeleteProject
    \/ ToggleProjectStatus

Spec == Init /\ [][Next]_vars

(***************************************************************************)
(* Vocabulary of the properties.                                           *)
(***************************************************************************)
History(s, user_id, issue_id) ==
    DictGet(UserIssues(s, user_id), issue_id).status_history

IsPrefix(a, b) == Len(a) <= Len(b) /\ SubSeq(b, 1, Len(a)) = a

Last(seq) == seq[Len(seq)]

StoredIssues(s, user_id) == {e.v : e \in Range(UserIssues(s, user_id))}

\* the step was a successful update_issue_status(u, i, ...)
Updated(u, i) ==
    /\ last'.op = "update_issue_status" /\ last'.ret = "True"
    /\ last'.user = u /\ last'.issue_id = i

\* the step was create_issue(u, ...) returning i
Created(u, i) ==
    last'.op = "create_issue" /\ last'.user = u /\ last'.issue_id = i

(***************************************************************************)
(* C1.  Every stored issue has a non-empty status_history; create_issue    *)
(* leaves a history of length one and each successful update_issue_status  *)
(* makes the history of its issue exactly one entry longer, so N updates   *)
(* after the creation give N + 1 entries.                                  *)
(***************************************************************************)
C1_HistoryNeverEmpty ==
    \A u \in Users : \A issue \in StoredIssues(settings, u) :
        Len(issue.status_history) >= 1

C1_HistoryStep ==
    \A u \in Users, i \in IssueIds :
        /\ Created(u, i) => Len(History(settings', u, i)) = 1
        /\ Updated(u, i) =>
             Len(History(settings', u, i)) = Len(History(settings, u, i)) + 1

C1_HistoryLength == []C1_HistoryNeverEmpty /\ [][C1_HistoryStep]_vars

C1_Witness ==
    /\ last.op = "update_issue_status" /\ last.ret = "True"
    /\ Len(History(settings, last.user, last.issue_id)) = 3

(***************************************************************************)
(* C2.  Every history entry after the first has previous_status equal to   *)
(* the status of the entry before it, the first update after create_issue  *)
(* recording previous_status = open, for every candidate.                  *)
(***************************************************************************)
C2_PreviousStatusChain ==
    \A u \in Users : \A issue \in StoredIssues(settings, u) :
        \A k \in 2..Len(issue.status_history) :
            issue.status_history[k].previous_status = issue.status_history[k - 1].status

(***************************************************************************)
(* C3.  Right after create_issue(user, candidate) returned id, the issue   *)
(* is present with status open and a history of exactly one entry, whose   *)
(* status is open and whose user is the creating user, for every candidate.*)
(***************************************************************************)
C3_CreatedOpen ==
    last.op = "create_issue" =>
        /\ get_issue(settings, last.user, last.issue_id) # {}
        /\ \A issue \in get_issue(settings, last.user, last.issue_id) :
             /\ issue.status = "open"
             /\ Len(issue.status_history) = 1
             /\ issue.status_history[1].status = "open"
             /\ issue.status_history[1].user = last.user

(***************************************************************************)
(* C4.  The status of every stored issue is the status of the last entry   *)
(* of its status_history.                                                  *)
(***************************************************************************)
C4_StatusIsLastHistory ==
    \A u \in Users : \A issue \in StoredIssues(settings, u) :
        issue.status = Last(issue.status_history).status

(***************************************************************************)
(* C5.  status_history is append-only: over create_issue,                  *)
(* update_issue_status, add_related_message and the project operations,    *)
(* the history stored under an id before the operation is a prefix of the  *)
(* history stored under it afterwards.                                     *)
(***************************************************************************)
StoreOps ==
    {"create_issue", "update_issue_status", "add_related_message",
     "create_project", "update_project_channels", "update_project_keywords",
     "delete_project", "toggle_project_status"}

C5_AppendOnlyStep ==
    last'.op \in StoreOps =>
        \A u \in DOMAIN settings : \A old \in StoredIssues(settings, u) :
            /\ get_issue(settings', u, old.id) # {}
            /\ \A new \in get_issue(settings', u, old.id) :
                 IsPrefix(old.status_history, new.status_history)

C5_AppendOnly == [][C5_AppendOnlyStep]_vars

\* as amended: create_issue on an id that is already stored is the one
\* exception, it replaces the history by a fresh one-entry history
C5_AppendOnlyButRecreateStep ==
    last'.op \in StoreOps =>
        \A u \in DOMAIN settings : \A old \in StoredIssues(settings, u) :
            /\ get_issue(settings', u, old.id) # {}
            /\ \A new \in get_issue(settings', u, old.id) :
                 IF Created(u, old.id)
                 THEN Len(new.status_history) = 1
                 ELSE IsPrefix(old.status_history, new.status_history)

C5_AppendOnlyButRecreate == [][C5_AppendOnlyButRecreateStep]_vars

\* a project operation has run on a store that holds an issue with a
\* history of two entries
C5_Witness ==
    /\ last.op \in {"create_project", "toggle_project_status", "delete_project"}
    /\ last.saved = "ok"
    /\ \E issue \in StoredIssues(settings, last.user) : Len(issue.status_history) = 2

(***************************************************************************)
(* C6.  Issues are never deleted: an issue that get_issue finds is found   *)
(* in every later state, whatever operations follow.                       *)
(***************************************************************************)
C6_NeverDeletedStep ==
    \A u \in Users, i \in IssueIds :
        get_issue(settings, u, i) # {} => get_issue(settings', u, i) # {}

C6_NeverDeleted == [][C6_NeverDeletedStep]_vars

(***************************************************************************)
(* C7.  create_issue with a candidate whose first 100 characters of        *)
(* original_text, channel and timestamp are those of a stored issue of the *)
(* user overwrites it: the id returned is the stored one, the number of    *)
(* issues is unchanged, and the record under the id is the new one, with a *)
(* one-entry history and no related messages.                              *)
(***************************************************************************)
SameFingerprintFields(issue, c) ==
    /\ Take(Chars(issue.original_text), PrefixLen)
         = Take(Chars(Get(c, "original_text", "")), PrefixLen)
    /\ issue.channel = Get(c, "channel", "")
    /\ issue.timestamp = Get(c, "timestamp", "")

C7_OverwriteStep ==
    last'.op = "create_issue" =>
        LET u == last'.user
        IN  \A c \in Candidates : \A old \in StoredIssues(settings, u) :
              (create_issue(u, c) /\ SameFingerprintFields(old, c)) =>
                  /\ last'.ret = "id" /\ last'.issue_id = old.id
                  /\ Len(UserIssues(settings', u)) = Len(UserIssues(settings, u))
                  /\ get_issue(settings', u, old.id) # {}
                  /\ \A new \in get_issue(settings', u, old.id) :
                       /\ new.original_text = Get(c, "original_text", "")
                       /\ new.title = Get(c, "title", "")
                       /\ Len(new.status_history) = 1
                       /\ new.related_messages = <<>>

C7_Overwrite == [][C7_OverwriteStep]_vars

\* the first of two issues of a user has just been created again, from the
\* candidate that carries the other text
C7_Witness ==
    /\ last.op = "create_issue"
    /\ Len(UserIssues(settings, last.user)) = 2
    /\ UserIssues(settings, last.user)[1].k = last.issue_id
    /\ UserIssues(settings, last.user)[1].v.original_text = "long-b"

(***************************************************************************)
(* C8.  update_issue_status on an id that is absent for the user returns   *)
(* False, leaves the store unchanged and does not write the file.          *)
(***************************************************************************)
C8_AbsentStep ==
    (/\ last'.op = "update_issue_status"
     /\ get_issue(settings, last'.user, last'.issue_id) = {}) =>
        /\ last'.ret = "False"
        /\ last'.saved = "no"
        /\ settings' = settings
        /\ file' = file

C8_AbsentIsNoop == [][C8_AbsentStep]_vars

\* the id is stored under the other user only
C8_Witness ==
    /\ last.op = "update_issue_status" /\ last.ret = "False"
    /\ last.user \in DOMAIN settings
    /\ get_issue(settings, last.user, last.issue_id) = {}
    /\ \E u \in Users \ {last.user} : get_issue(settings, u, last.issue_id) # {}

(***************************************************************************)
(* C9.  update_issue_status on a stored issue is unconditional: whatever   *)
(* the current and the new status, equal or not, it returns True, sets the *)
(* status and appends one entry with the new status, the user updated_by   *)
(* or else the caller, and the old status as previous_status.              *)
(***************************************************************************)
C9_UpdateStep ==
    last'.op = "update_issue_status" =>
        LET u == last'.user
            i == last'.issue_id
        IN  \A old \in get_issue(settings, u, i) :
              \A st \in StatusArgs, by \in UpdatedByArgs :
                update_issue_status(u, i, st, by) =>
                    /\ last'.ret = "True"
                    /\ get_issue(settings', u, i) # {}
                    /\ \A new \in get_issue(settings', u, i) :
                         /\ new.status = st
                         /\ Len(new.status_history) = Len(old.status_history) + 1
                         /\ IsPrefix(old.status_history, new.status_history)
                         /\ Last(new.status_history).status = st
                         /\ Last(new.status_history).user = (IF by = None THEN u ELSE by)
                         /\ Last(new.status_history).previous_status = old.status

C9_UpdateUnconditional == [][C9_UpdateStep]_vars

\* a transition to the same status, by a named user, has been recorded
C9_Witness ==
    /\ last.op = "update_issue_status" /\ last.ret = "True"
    /\ LET h == History(settings, last.user, last.issue_id)
       IN  /\ Last(h).status = Last(h).previous_status
           /\ Last(h).user # last.user

(***************************************************************************)
(* C10.  For every user and every filter value s, get_user_issues with     *)
(* the filter s returns exactly the entries of the unfiltered result whose *)
(* status is s, in the same order.                                         *)
(***************************************************************************)
FilterArgs == StatusArgs \cup Statuses

RECURSIVE Pick(_, _)
Pick(entries, s) ==
    IF entries = <<>> THEN <<>>
    ELSE IF Head(entries).v.status = s
         THEN <<Head(entries)>> \o Pick(Tail(entries), s)
         ELSE Pick(Tail(entries), s)

C10_FilterIsSubset ==
    \A u \in Users, s \in FilterArgs :
        get_user_issues(settings, u, s) = Pick(get_user_issues(settings, u, None), s)

\* a filter that keeps one of two issues
C10_Witness ==
    \E u \in Users, s \in FilterArgs :
        /\ Len(get_user_issues(settings, u, None)) = 2
        /\ Len(get_user_issues(settings, u, s)) = 1

(***************************************************************************)
(* get_issue_statistics.  stats is the dict the code builds; the counters  *)
(* by status are keys of the same dict as "total", "by_priority" and       *)
(* "recent_activity", and "if status in stats" looks the status up among   *)
(* all of them.  The clock counts days, so that 24 hours are DayTicks.     *)
(***************************************************************************)
DayTicks == 1

EmptyStats(total) ==
    [total |-> total, open |-> 0, investigating |-> 0, resolved |-> 0,
     closed |-> 0,
     by_priority |-> [low |-> 0, medium |-> 0, high |-> 0, critical |-> 0],
     recent_activity |-> 0]

\* stats["by_priority"] += 1 raises TypeError
StatsRaises(s, user_id) ==
    \E e \in Range(UserIssues(s, user_id)) : e.v.status = "by_priority"

\* one turn of the loop over issues.values()
CountIssue(stats, issue, twenty_four_hours_ago) ==
    LET status == issue.status
        priority == issue.priority
        s1 == IF status \in DOMAIN stats /\ status # "by_priority"
              THEN [stats EXCEPT ![status] = @ + 1]
              ELSE stats
        s2 == IF priority \in DOMAIN s1.by_priority
              THEN [s1 EXCEPT !.by_priority[priority] = @ + 1]
              ELSE s1
    IN  IF issue.updated_at > twenty_four_hours_ago
        THEN [s2 EXCEPT !.recent_activity = @ + 1]
        ELSE s2

RECURSIVE CountIssues(_, _, _)
CountIssues(stats, entries, twenty_four_hours_ago) ==
    IF entries = <<>> THEN stats
    ELSE CountIssues(CountIssue(stats, Head(entries).v, twenty_four_hours_ago),
                     Tail(entries), twenty_four_hours_ago)

get_issue_statistics(s, user_id, now) ==
    LET issues == get_user_issues(s, user_id, None)
    IN  CountIssues(EmptyStats(Len(issues)), issues, now - DayTicks)

(***************************************************************************)
(* C11.  For every issue set reached through create_issue and              *)
(* update_issue_status, the statistics of every user satisfy               *)
(* open + investigating + resolved + closed = total.                       *)
(***************************************************************************)
C11_StatusCountsSumToTotal ==
    \A u \in Users :
        LET stats == get_issue_statistics(settings, u, clock)
        IN  stats.open + stats.investigating + stats.resolved + stats.closed
              = stats.total

(***************************************************************************)
(* search_issues.                                                          *)
(***************************************************************************)
\* str.lower() on character codes
LowerChar(c) == IF c >= 65 /\ c <= 90 THEN c + 32 ELSE c
Lower(chars) == [i \in 1..Len(chars) |-> LowerChar(chars[i])]

\* needle in hay
Contains(hay, needle) ==
    \E i \in 0..(Len(hay) - Len(needle)) :
        SubSeq(hay, i + 1, i + Len(needle)) = needle

Space == <<32>>

\* f"{title} {description} {original_text}".lower()
searchable_text(issue) ==
    Lower(Chars(issue.title) \o Space \o Chars(issue.description) \o Space
            \o Chars(issue.original_text))

\* the test of the loop comparing the query as it was typed
Matches_QueryAsTyped(issue, query) ==
    Contains(searchable_text(issue), Chars(query))

\* query_lower in searchable_text
Matches(issue, query) ==
    Contains(searchable_text(issue), Lower(Chars(query)))

\* a sort that is ascending and then reversed, which reverses the ties
InsertDescending_TiesReversed(sorted, x) ==
    LET n == Cardinality({i \in 1..Len(sorted) : sorted[i].updated_at > x.updated_at})
    IN  SubSeq(sorted, 1, n) \o <<x>> \o SubSeq(sorted, n + 1, Len(sorted))

\* results.sort(key=updated_at, reverse=True) is stable: x goes behind
\* every element that is not older than x
InsertDescending(sorted, x) ==
    LET n == Cardinality({i \in 1..Len(sorted) : sorted[i].updated_at >= x.updated_at})
    IN  SubSeq(sorted, 1, n) \o <<x>> \o SubSeq(sorted, n + 1, Len(sorted))

RECURSIVE SortDescending(_, _)
SortDescending(sorted, rest) ==
    IF rest = <<>> THEN sorted
    ELSE SortDescending(InsertDescending(sorted, Head(rest)), Tail(rest))

search_issues(s, user_id, query) ==
    LET issues == get_user_issues(s, user_id, None)
        hits == SelectSeq(issues, LAMBDA e : Matches(e.v, query))
        results == [i \in 1..Len(hits) |-> hits[i].v]
    IN  SortDescending(<<>>, results)

(***************************************************************************)
(* The store of one user as time passes: issues are created from the       *)
(* candidates with text and moved to another status, each call reading     *)
(* the clock where the code does.                                          *)
(***************************************************************************)
QueryUsers == {"U1"}
Queries == {"pcb", "PCB", "hot", "pcb hot", ""}

InitQuery ==
    /\ file = Absent
    /\ disk = "writable"
    /\ settings = _load_settings(file)
    /\ clock = 0
    /\ last = Call("__init__", "", NoId, "", None, "no")
    /\ other = NoOther

CreateIssueQuery ==
    /\ \E u \in QueryUsers, c \in QueryCandidates : create_issue(u, c)
    /\ UNCHANGED other

UpdateIssueStatusQuery ==
    /\ \E u \in QueryUsers, i \in QueryIssueIds : update_issue_status(u, i, "resolved", None)
    /\ UNCHANGED other

\* the message of the test and a partial one
QueryMessages == MessageArgs \cup {[text |-> "hot", user |-> "john"]}

AddRelatedMessageQuery ==
    /\ \E u \in QueryUsers, m \in QueryMessages :
         add_related_message(u, CandidateId[CandPcb], m)
    /\ UNCHANGED other

NextQuery ==
    \/ CreateIssueQuery
    \/ UpdateIssueStatusQuery
    \/ AddRelatedMessageQuery

SpecQuery == InitQuery /\ [][NextQuery]_vars

(***************************************************************************)
(* C12.  For every issue set reached through create_issue, the statistics  *)
(* of every user satisfy by_priority.critical + high + medium + low        *)
(* = total, total being the number of issues stored for the user.          *)
(***************************************************************************)
C12_PriorityCountsSumToTotal ==
    \A u \in Users :
        LET stats == get_issue_statistics(settings, u, clock)
        IN  /\ stats.total = Len(UserIssues(settings, u))
            /\ stats.by_priority.critical + stats.by_priority.high
                 + stats.by_priority.medium + stats.by_priority.low = stats.total

(***************************************************************************)
(* C13.  search_issues returns an issue of the user if and only if its     *)
(* title, its description or its original_text, lower-cased, contains the  *)
(* lower-cased query.                                                      *)
(***************************************************************************)
FieldContains(issue, query) ==
    \E field \in {issue.title, issue.description, issue.original_text} :
        Contains(Lower(Chars(field)), Lower(Chars(query)))

Found(s, user_id, query) == Range(search_issues(s, user_id, query))

C13_SearchFieldByField ==
    \A u \in DOMAIN settings, q \in Queries :
        LET found == Found(settings, u, q)
        IN  \A issue \in StoredIssues(settings, u) :
              issue \in found <=> FieldContains(issue, q)

\* as amended: the query is looked up in the three fields joined by single
\* spaces, so every issue with a field that contains it is returned, and a
\* query with a space in it is also found across the end of one field and
\* the beginning of the next
C13_SearchJoinedFields ==
    \A u \in Users, q \in Queries :
        LET found == Found(settings, u, q)
            stored == StoredIssues(settings, u)
        IN  /\ found \subseteq stored
            /\ \A issue \in stored :
                 LET in_field == FieldContains(issue, q)
                 IN  /\ in_field => issue \in found
                     /\ (issue \in found /\ ~Contains(Chars(q), Space)) => in_field
                     /\ issue \in found
                          <=> Contains(Lower(Chars(issue.title) \o Space
                                               \o Chars(issue.description) \o Space
                                               \o Chars(issue.original_text)),
                                       Lower(Chars(q)))

\* an upper-case query finds one of two issues by its lower-case text, and
\* a query of two words finds it across its title and description
C13_Witness ==
    \E u \in Users :
        /\ Len(UserIssues(settings, u)) = 2
        /\ Len(search_issues(settings, u, "PCB")) = 1
        /\ Len(search_issues(settings, u, "pcb hot")) = 1
        /\ Len(search_issues(settings, u, "hot")) = 2

(***************************************************************************)
(* C14.  The result of search_issues is ordered by updated_at descending,  *)
(* and results with equal updated_at are in the insertion order of the     *)
(* issues dict.                                                            *)
(***************************************************************************)
C14_SearchOrder ==
    \A u \in Users, q \in Queries :
        LET issues == UserIssues(settings, u)
            r == search_issues(settings, u, q)
        IN  \A i, j \in 1..Len(r) :
              i < j =>
                /\ r[i].updated_at >= r[j].updated_at
                /\ r[i].updated_at = r[j].updated_at
                     => DictIndex(issues, r[i].id) < DictIndex(issues, r[j].id)

\* the issue created last was touched last and comes first, before two
\* issues touched at the same time
C14_Witness ==
    \E u \in Users :
        LET issues == UserIssues(settings, u)
            r == search_issues(settings, u, "")
        IN  /\ Len(r) = 3
            /\ r[1].updated_at > r[2].updated_at
            /\ r[2].updated_at = r[3].updated_at
            /\ DictIndex(issues, r[1].id) = 3

(***************************************************************************)
(* C15.  add_related_message on a stored issue returns True and appends    *)
(* one record, made of the five fields of the message, behind the related  *)
(* messages there were; in the issue nothing else changes but updated_at,  *)
(* and nothing changes in the other issues.  On an absent issue it returns *)
(* False and changes neither the store nor the file.                       *)
(***************************************************************************)
C15_AddRelatedStep ==
    last'.op = "add_related_message" =>
        LET u == last'.user
            i == last'.issue_id
        IN  IF get_issue(settings, u, i) = {}
            THEN /\ last'.ret = "False"
                 /\ settings' = settings
                 /\ file' = file
            ELSE /\ last'.ret = "True"
                 /\ get_issue(settings', u, i) # {}
                 /\ \A old \in get_issue(settings, u, i) :
                      \A new \in get_issue(settings', u, i) :
                        /\ Len(new.related_messages) = Len(old.related_messages) + 1
                        /\ IsPrefix(old.related_messages, new.related_messages)
                        /\ \E m \in QueryMessages :
                             LET r == Last(new.related_messages)
                             IN  /\ r.text = Get(m, "text", "")
                                 /\ r.user = Get(m, "user", "")
                                 /\ r.channel = Get(m, "channel", "")
                                 /\ r.timestamp = Get(m, "timestamp", "")
                                 /\ r.message_ts = Get(m, "message_ts", "")
                        /\ new.status = old.status
                        /\ new.status_history = old.status_history
                        /\ [new EXCEPT !.related_messages = old.related_messages,
                                       !.updated_at = old.updated_at] = old
                        /\ settings' = PutIssue(settings, u, i, new)

C15_AddRelatedAppends == [][C15_AddRelatedStep]_vars

\* a second, different message has been added to an issue
C15_Witness ==
    /\ last.op = "add_related_message" /\ last.ret = "True"
    /\ \E issue \in get_issue(settings, last.user, last.issue_id) :
         /\ Len(issue.related_messages) = 2
         /\ issue.related_messages[1].text # issue.related_messages[2].text

\* the message was for an issue that the user does not have
C15_WitnessAbsent ==
    /\ last.op = "add_related_message" /\ last.ret = "False"
    /\ UserIssues(settings, last.user) # <<>>

(***************************************************************************)
(* The store and its file.  A process constructs the store from whatever   *)
(* is at the path of the file, the file system comes and goes read-only or *)
(* full, and the file is damaged or removed from outside.                  *)
(***************************************************************************)
\* UserSettings(settings_file): self.settings = self._load_settings()
__init__ ==
    /\ IF _load_settings_raises(file)
       THEN /\ settings' = EmptyMap
            /\ last' = Call("__init__", "", NoId, "", "raise", "no")
       ELSE /\ settings' = _load_settings(file)
            /\ last' = Call("__init__", "", NoId, "", None, "no")
    /\ UNCHANGED <<file, disk, clock>>

\* the constructor returned an instance
Constructed == last.ret # "raise"

DiskUsers == {"U1"}
DiskCandidates == {Cand1, Cand3}
DiskIssueIds == {CandidateId[c] : c \in DiskCandidates}

InitDisk ==
    /\ file = Absent
    /\ disk = "writable"
    /\ settings = _load_settings(file)
    /\ clock = MaxClock
    /\ last = Call("__init__", "", NoId, "", None, "no")
    /\ other = NoOther

Restart ==
    /\ __init__
    /\ UNCHANGED other

\* the file system changes its condition
DiskChanges ==
    /\ \E d \in DiskStates \ {disk} : disk' = d
    /\ last' = Call("environment", "", NoId, "", None, "no")
    /\ UNCHANGED <<settings, file, clock, other>>

\* the file is removed, cut short, overwritten with bytes that are no text,
\* or replaced by something that cannot be opened
FileDamaged ==
    /\ \E f \in {Absent, Corrupt, Undecodable, Unopenable} \ {file} : file' = f
    /\ last' = Call("environment", "", NoId, "", None, "no")
    /\ UNCHANGED <<settings, disk, clock, other>>

CreateIssueDisk ==
    /\ Constructed
    /\ \E u \in DiskUsers, c \in DiskCandidates : create_issue(u, c)
    /\ UNCHANGED other

UpdateIssueStatusDisk ==
    /\ Constructed
    /\ \E u \in DiskUsers, i \in DiskIssueIds : update_issue_status(u, i, "closed", None)
    /\ UNCHANGED other

AddRelatedMessageDisk ==
    /\ Constructed
    /\ \E u \in DiskUsers, i \in DiskIssueIds, m \in MessageArgs :
         add_related_message(u, i, m)
    /\ UNCHANGED other

CreateProjectDisk ==
    /\ Constructed
    /\ \E u \in DiskUsers, n \in ProjectNames : create_project(u, n, <<"C1">>, Omitted)
    /\ UNCHANGED other

UpdateProjectChannelsDisk ==
    /\ Constructed
    /\ \E u \in DiskUsers, n \in ProjectNames : update_project_channels(u, n, <<"C2">>)
    /\ UNCHANGED other

UpdateProjectKeywordsDisk ==
    /\ Constructed
    /\ \E u \in DiskUsers, n \in ProjectNames : update_project_keywords(u, n, <<"pcb">>)
    /\ UNCHANGED other

DeleteProjectDisk ==
    /\ Constructed
    /\ \E u \in DiskUsers, n \in ProjectNames : delete_project(u, n)
    /\ UNCHANGED other

ToggleProjectStatusDisk ==
    /\ Constructed
    /\ \E u \in DiskUsers, n \in ProjectNames : toggle_project_status(u, n)
    /\ UNCHANGED other

NextDisk ==
    \/ Restart
    \/ DiskChanges
    \/ FileDamaged
    \/ CreateIssueDisk
    \/ UpdateIssueStatusDisk
    \/ AddRelatedMessageDisk
    \/ CreateProjectDisk
    \/ UpdateProjectChannelsDisk
    \/ UpdateProjectKeywordsDisk
    \/ DeleteProjectDisk
    \/ ToggleProjectStatusDisk

SpecDisk == InitDisk /\ [][NextDisk]_vars

(***************************************************************************)
(* C16.  Every call of create_issue, update_issue_status,                  *)
(* add_related_message and the project mutators that changes the store     *)
(* calls _save_settings before it returns, and a save that succeeds        *)
(* rewrites the whole file: the file then holds the store in memory, and   *)
(* an instance constructed from it has the same issues and projects.       *)
(***************************************************************************)
C16_FileIsStore ==
    last.saved = "ok" =>
        /\ file = Json(settings)
        /\ _load_settings(file) = settings

C16_MutatorStep ==
    last'.op \in StoreOps =>
        /\ settings' # settings => last'.saved \in {"ok", "failed"}
        /\ last'.saved = "ok" => file' = Json(settings')

C16_RestartStep ==
    (last'.op = "__init__" /\ last.saved = "ok") =>
        /\ last'.ret # "raise"
        /\ settings' = settings
        /\ \A u \in Users :
             /\ UserIssues(settings', u) = UserIssues(settings, u)
             /\ get_user_projects(settings', u) = get_user_projects(settings, u)

C16_WriteThrough ==
    []C16_FileIsStore /\ [][C16_MutatorStep /\ C16_RestartStep]_vars

\* an instance has been constructed from a file that holds an issue and a
\* project
C16_Witness ==
    /\ last.op = "__init__"
    /\ file = Json(settings)
    /\ \E u \in Users :
         /\ UserIssues(settings, u) # <<>>
         /\ get_user_projects(settings, u) # EmptyMap

(***************************************************************************)
(* C17.  A mutating call whose write fails returns what it returns when    *)
(* the write succeeds and raises nothing, the store in memory keeps the    *)
(* change, and a later save that succeeds writes the whole store in        *)
(* memory.                                                                 *)
(***************************************************************************)
C17_FailedWriteStep ==
    last'.saved = "failed" =>
        LET op == last'.op
            u == last'.user
            i == last'.issue_id
            n == last'.project_name
        IN  /\ last'.ret # "raise"
            /\ op = "create_issue" =>
                 /\ last'.ret = "id"
                 /\ \E new \in get_issue(settings', u, i) : Len(new.status_history) = 1
            /\ op = "update_issue_status" =>
                 /\ last'.ret = "True"
                 /\ Len(History(settings', u, i)) = Len(History(settings, u, i)) + 1
            /\ op = "add_related_message" =>
                 /\ last'.ret = "True"
                 /\ \E new \in get_issue(settings', u, i) :
                      \E old \in get_issue(settings, u, i) :
                        Len(new.related_messages) = Len(old.related_messages) + 1
            /\ op = "create_project" => get_project(settings', u, n) # {}
            /\ op = "update_project_channels" =>
                 \E p \in get_project(settings', u, n) : p.channels = <<"C2">>
            /\ op = "update_project_keywords" =>
                 \E p \in get_project(settings', u, n) : p.keywords = <<"pcb">>
            /\ op = "delete_project" => get_project(settings', u, n) = {}
            /\ op = "toggle_project_status" =>
                 \E new \in get_project(settings', u, n) :
                   \E old \in get_project(settings, u, n) :
                     /\ new.active = ~old.active
                     /\ last'.ret = (IF new.active THEN "True" ELSE "False")

C17_NextSaveStep ==
    last'.saved = "ok" => _load_settings(file') = settings'

C17_FailedWriteKept == [][C17_FailedWriteStep /\ C17_NextSaveStep]_vars

\* a project was switched off while the file could not be written: the
\* file still says it is active
C17_Witness ==
    /\ last.op = "toggle_project_status" /\ last.saved = "failed"
    /\ file.kind = "json"
    /\ \E new \in get_project(settings, last.user, last.project_name) :
         \E old \in get_project(_load_settings(file), last.user, last.project_name) :
           new.active # old.active

(***************************************************************************)
(* C18.  The constructor's load never raises: it gives an empty store when *)
(* the file is absent, cannot be opened or holds anything but a complete   *)
(* document, and otherwise the store that was written last.                *)
(***************************************************************************)
C18_LoadNeverRaises ==
    last.op = "__init__" =>
        /\ last.ret # "raise"
        /\ settings = (IF file.kind = "json" THEN Load(file.data) ELSE EmptyMap)

(***************************************************************************)
(* Two processes, each with its own UserSettings instance constructed on   *)
(* the same file.  settings is the store of the instance that is making    *)
(* calls, other.settings that of the instance that is not; they take       *)
(* turns at any point between two calls.  other.writer says which of the   *)
(* two wrote the file last.                                                *)
(***************************************************************************)
TwoUsers == {"U1"}
TwoCandidates == {Cand1, Cand3}
TwoIssueIds == {CandidateId[c] : c \in TwoCandidates}

InitTwo ==
    /\ file = Absent
    /\ disk = "writable"
    /\ settings = _load_settings(file)
    /\ clock = MaxClock
    /\ last = Call("__init__", "", NoId, "", None, "no")
    /\ other = [settings |-> _load_settings(file), writer |-> "nobody"]

\* the instance that made the call wrote the file if its save succeeded
Wrote(o, saved) == IF saved = "ok" THEN [o EXCEPT !.writer = "running"] ELSE o

Switch ==
    /\ settings' = other.settings
    /\ other' = [settings |-> settings,
                 writer |-> IF other.writer = "running" THEN "other"
                            ELSE IF other.writer = "other" THEN "running"
                            ELSE "nobody"]
    /\ last' = Call("switch", "", NoId, "", None, "no")
    /\ UNCHANGED <<file, disk, clock>>

CreateIssueTwo ==
    /\ \E u \in TwoUsers, c \in TwoCandidates : create_issue(u, c)
    /\ other' = Wrote(other, last'.saved)

UpdateIssueStatusTwo ==
    /\ \E u \in TwoUsers, i \in TwoIssueIds : update_issue_status(u, i, "closed", None)
    /\ other' = Wrote(other, last'.saved)

CreateProjectTwo ==
    /\ \E u \in TwoUsers, n \in ProjectNames : create_project(u, n, <<"C1">>, Omitted)
    /\ other' = Wrote(other, last'.saved)

NextTwo ==
    \/ Switch
    \/ CreateIssueTwo
    \/ UpdateIssueStatusTwo
    \/ CreateProjectTwo

SpecTwo == InitTwo /\ [][NextTwo]_vars

(***************************************************************************)
(* C19.  With two instances on one file the last writer wins: the file     *)
(* holds the whole store of the instance that wrote last and nothing       *)
(* else, so an issue or a project that only the other instance has is not  *)
(* in the file, and no call fails or reports a conflict.                   *)
(***************************************************************************)
LostFrom(mine, theirs, f) ==
    \A u \in Users :
        /\ \A i \in IssueIds :
             (get_issue(theirs, u, i) # {} /\ get_issue(mine, u, i) = {})
                => get_issue(_load_settings(f), u, i) = {}
        /\ \A n \in ProjectNames :
             (get_project(theirs, u, n) # {} /\ get_project(mine, u, n) = {})
                => get_project(_load_settings(f), u, n) = {}

C19_LastWriterWins ==
    /\ other.writer = "nobody" => file = Absent
    /\ other.writer = "running" =>
         /\ file = Json(settings)
         /\ LostFrom(settings, other.settings, file)
    /\ other.writer = "other" =>
         /\ file = Json(other.settings)
         /\ LostFrom(other.settings, settings, file)
    /\ last.ret # "raise"

\* the instance that wrote last has one issue, the other instance has
\* another one, which it had written to the file before
C19_Witness ==
    /\ other.writer = "running"
    /\ last.saved = "ok"
    /\ \E u \in Users :
         /\ UserIssues(settings, u) # <<>>
         /\ \E i \in IssueIds :
              /\ get_issue(other.settings, u, i) # {}
              /\ get_issue(settings, u, i) = {}
              /\ get_issue(_load_settings(file), u, i) = {}

(***************************************************************************)
(* The read operations as calls.  None of them assigns to self.settings    *)
(* or calls _save_settings; what they return goes to the caller.           *)
(* get_issue_statistics reads the clock.  detect_and_track_issues builds   *)
(* its list of candidates from the messages alone.                         *)
(***************************************************************************)
\* a getter written with setdefault, which adds a missing user to the store
ReadOnly_AddsUser(op, user_id, issue_id, project_name, ret) ==
    /\ settings' = IF user_id \in DOMAIN settings THEN settings
                   ELSE MapSet(settings, user_id, EmptyMap)
    /\ last' = Call(op, user_id, issue_id, project_name, ret, "no")
    /\ UNCHANGED <<file, disk, clock>>

ReadOnly(op, user_id, issue_id, project_name, ret) ==
    /\ last' = Call(op, user_id, issue_id, project_name, ret, "no")
    /\ UNCHANGED <<settings, file, disk, clock>>

\* what a getter returns, as far as the caller's test of it goes
Value(found) == IF found THEN "value" ELSE None

GetIssue(user_id, issue_id) ==
    ReadOnly("get_issue", user_id, issue_id, "",
             Value(get_issue(settings, user_id, issue_id) # {}))

GetUserIssues(user_id, status) ==
    ReadOnly("get_user_issues", user_id, NoId, "",
             Value(get_user_issues(settings, user_id, status) # <<>>))

SearchIssues(user_id, query) ==
    ReadOnly("search_issues", user_id, NoId, "",
             Value(search_issues(settings, user_id, query) # <<>>))

GetIssueStatistics(user_id) ==
    \E now \in clock..MaxClock :
        /\ clock' = now
        /\ last' = Call("get_issue_statistics", user_id, NoId, "",
                        IF StatsRaises(settings, user_id) THEN "raise"
                        ELSE Value(get_issue_statistics(settings, user_id, now).total > 0),
                        "no")
        /\ UNCHANGED <<settings, file, disk>>

GetProject(user_id, project_name) ==
    ReadOnly("get_project", user_id, NoId, project_name,
             Value(get_project(settings, user_id, project_name) # {}))

GetUserProjects(user_id) ==
    ReadOnly("get_user_projects", user_id, NoId, "",
             Value(get_user_projects(settings, user_id) # EmptyMap))

\* messages is the batch, a sequence of message texts
DetectAndTrackIssues(messages, user_id) ==
    ReadOnly("detect_and_track_issues", user_id, NoId, "", Value(messages # <<>>))

ReadOps ==
    {"get_issue", "get_user_issues", "search_issues", "get_issue_statistics",
     "get_project", "get_user_projects", "detect_and_track_issues"}

ReadFilters == {None, "open", "resolved"}
MessageBatches == {<<>>, <<"pcb hot">>, <<"fan", "pcb">>}

InitRead ==
    /\ file = Absent
    /\ disk = "writable"
    /\ settings = _load_settings(file)
    /\ clock = MaxClock
    /\ last = Call("__init__", "", NoId, "", None, "no")
    /\ other = NoOther

CreateIssueRead ==
    /\ \E u \in QueryUsers, c \in QueryCandidates : create_issue(u, c)
    /\ UNCHANGED other

CreateProjectRead ==
    /\ \E u \in QueryUsers, n \in ProjectNames : create_project(u, n, <<"C1">>, Omitted)
    /\ UNCHANGED other

GetIssueRead ==
    /\ \E u \in Users, i \in QueryIssueIds : GetIssue(u, i)
    /\ UNCHANGED other

GetUserIssuesRead ==
    /\ \E u \in Users, st \in ReadFilters : GetUserIssues(u, st)
    /\ UNCHANGED other

SearchIssuesRead ==
    /\ \E u \in Users, q \in Queries : SearchIssues(u, q)
    /\ UNCHANGED other

GetIssueStatisticsRead ==
    /\ \E u \in Users : GetIssueStatistics(u)
    /\ UNCHANGED other

GetProjectRead ==
    /\ \E u \in Users, n \in ProjectNames : GetProject(u, n)
    /\ UNCHANGED other

GetUserProjectsRead ==
    /\ \E u \in Users : GetUserProjects(u)
    /\ UNCHANGED other

DetectRead ==
    /\ \E u \in Users, messages \in MessageBatches : DetectAndTrackIssues(messages, u)
    /\ UNCHANGED other

NextRead ==
    \/ CreateIssueRead
    \/ CreateProjectRead
    \/ GetIssueRead
    \/ GetUserIssuesRead
    \/ SearchIssuesRead
    \/ GetIssueStatisticsRead
    \/ GetProjectRead
    \/ GetUserProjectsRead
    \/ DetectRead

SpecRead == InitRead /\ [][NextRead]_vars

(***************************************************************************)
(* C20.  get_issue, get_user_issues, search_issues, get_issue_statistics,  *)
(* get_project, get_user_projects and detect_and_track_issues leave the    *)
(* store as it is and do not write the file, in every state and for every  *)
(* argument, unknown users and ids included.                               *)
(***************************************************************************)
C20_ReadStep ==
    last'.op \in ReadOps =>
        /\ settings' = settings
        /\ file' = file
        /\ last'.saved = "no"
        /\ other' = other

C20_ReadsNeverMutate == [][C20_ReadStep]_vars

\* a user the store does not know has been asked for, and is still unknown
C20_Witness ==
    /\ last.op \in {"get_issue", "get_project", "get_issue_statistics"}
    /\ last.ret = None
    /\ last.user \notin DOMAIN settings
    /\ settings # EmptyMap
    /\ file = Json(settings)

(***************************************************************************)
(* The project registry of a user as time passes: projects under two       *)
(* names are created with and without keywords, changed, toggled and       *)
(* deleted, next to an issue of the same user.                             *)
(***************************************************************************)
RegistryNames == {"P1", "P2"}
\* channel lists as the caller gives them, one with a duplicate
ChannelArgs == {<<"C1">>, <<"C2", "C1", "C2">>}
\* keywords omitted, and given with a duplicate
KeywordArgs == {Omitted, {<<"pcb", "hot", "pcb">>}}

CreateProjectRegistry ==
    /\ \E u \in QueryUsers, n \in RegistryNames, ch \in ChannelArgs, kw \in KeywordArgs :
         create_project(u, n, ch, kw)
    /\ UNCHANGED other

UpdateProjectChannelsRegistry ==
    /\ \E u \in QueryUsers, n \in RegistryNames : update_project_channels(u, n, <<"C2", "C1", "C2">>)
    /\ UNCHANGED other

UpdateProjectKeywordsRegistry ==
    /\ \E u \in QueryUsers, n \in RegistryNames : update_project_keywords(u, n, <<"pcb", "hot", "pcb">>)
    /\ UNCHANGED other

DeleteProjectRegistry ==
    /\ \E u \in QueryUsers, n \in RegistryNames : delete_project(u, n)
    /\ UNCHANGED other

ToggleProjectStatusRegistry ==
    /\ \E u \in QueryUsers, n \in RegistryNames : toggle_project_status(u, n)
    /\ UNCHANGED other

CreateIssueRegistry ==
    /\ \E u \in QueryUsers, c \in {Cand3} : create_issue(u, c)
    /\ UNCHANGED other

NextRegistry ==
    \/ CreateProjectRegistry
    \/ UpdateProjectChannelsRegistry
    \/ UpdateProjectKeywordsRegistry
    \/ DeleteProjectRegistry
    \/ ToggleProjectStatusRegistry
    \/ CreateIssueRegistry

SpecRegistry == InitQuery /\ [][NextRegistry]_vars

(***************************************************************************)
(* C21.  create_project(user, name, channels, keywords) leaves the user    *)
(* with one project under the name, whose channels and keywords are the    *)
(* sequences given, duplicates and order kept (keywords empty when         *)
(* omitted), and whose active flag is true, whatever was stored under the  *)
(* name before; the other projects of the user stay as they were.          *)
(***************************************************************************)
C21_CreateStep ==
    \A u \in QueryUsers, n \in RegistryNames, ch \in ChannelArgs, kw \in KeywordArgs :
        create_project(u, n, ch, kw) =>
            LET before == get_user_projects(settings, u)
                after == get_user_projects(settings', u)
            IN  /\ DOMAIN after = DOMAIN before \cup {n}
                /\ get_project(settings', u, n) = {after[n]}
                /\ after[n].channels = ch
                /\ after[n].keywords = (IF kw = Omitted THEN <<>> ELSE The(kw))
                /\ after[n].active = TRUE
                /\ \A m \in DOMAIN before \ {n} : after[m] = before[m]

C21_CreateOverwrites == [][C21_CreateStep]_vars

\* a project that was changed, switched off and is older than the clock
\* has just been created again
C21_Witness ==
    /\ last.op = "create_project" /\ last.user = "U1" /\ last.project_name = "P1"
    /\ clock = MaxClock
    /\ "U1" \in DOMAIN settings /\ "projects" \in DOMAIN settings["U1"]
    /\ DOMAIN settings["U1"]["projects"] = {"P1", "P2"}
    /\ settings["U1"]["projects"]["P1"].channels = <<"C2", "C1", "C2">>
    /\ settings["U1"]["projects"]["P1"].active
    /\ ~settings["U1"]["projects"]["P2"].active
    /\ settings["U1"]["projects"]["P2"].keywords = <<"pcb", "hot", "pcb">>

(***************************************************************************)
(* C22.  toggle_project_status on a stored project flips its active flag,  *)
(* changes nothing else and returns the new flag, so that a second toggle  *)
(* gives back the project as it was; on a project that is not stored it    *)
(* returns None, which is not False, and the store and the file stay as    *)
(* they were.                                                              *)
(***************************************************************************)
C22_ToggleStep ==
    \A u \in QueryUsers, n \in RegistryNames :
        toggle_project_status(u, n) =>
            IF HasProject(settings, u, n)
            THEN LET before == get_user_projects(settings, u)[n]
                     after == get_user_projects(settings', u)[n]
                 IN  /\ after.active = ~before.active
                     /\ last'.ret = (IF after.active THEN "True" ELSE "False")
                     /\ settings' = PutProject(settings, u, n,
                                        [before EXCEPT !.active = after.active])
                     /\ PutProject(settings', u, n,
                            [after EXCEPT !.active = ~after.active]) = settings
            ELSE /\ last'.ret = None
                 /\ last'.ret \notin {"True", "False"}
                 /\ last'.saved = "no"
                 /\ UNCHANGED <<settings, file>>

C22_ToggleFlips == [][C22_ToggleStep]_vars

\* a project that was switched off has just been switched on again
C22_Witness ==
    /\ last.op = "toggle_project_status" /\ last.ret = "True"
    /\ HasProject(settings, last.user, last.project_name)
    /\ settings[last.user]["projects"][last.project_name].active
    /\ settings[last.user]["projects"][last.project_name].created_at < clock

\* a toggle of a project that is not stored, next to one that is
C22_WitnessAbsent ==
    /\ last.op = "toggle_project_status" /\ last.ret = None
    /\ last.project_name = "P2"
    /\ HasProject(settings, last.user, "P1")
    /\ ~HasProject(settings, last.user, "P2")

(***************************************************************************)
(* C23.  delete_project on a stored project removes it, so that            *)
(* get_project finds nothing under the name afterwards, while the other    *)
(* projects and the issues of the user stay as they were;                  *)
(* delete_project, update_project_channels and update_project_keywords on  *)
(* a project that is not stored leave the store as it was, create no       *)
(* project and do not write the file.                                      *)
(***************************************************************************)
C23_DeleteStep ==
    \A u \in QueryUsers, n \in RegistryNames :
        (delete_project(u, n) /\ HasProject(settings, u, n)) =>
            LET before == get_user_projects(settings, u)
                after == get_user_projects(settings', u)
            IN  /\ get_project(settings', u, n) = {}
                /\ DOMAIN after = DOMAIN before \ {n}
                /\ \A m \in DOMAIN after : after[m] = before[m]
                /\ UserIssues(settings', u) = UserIssues(settings, u)
                /\ \A v \in DOMAIN settings \ {u} : settings'[v] = settings[v]

C23_AbsentStep ==
    \A u \in QueryUsers, n \in RegistryNames :
        (/\ ~HasProject(settings, u, n)
         /\ \/ delete_project(u, n)
            \/ update_project_channels(u, n, <<"C2", "C1", "C2">>)
            \/ update_project_keywords(u, n, <<"pcb", "hot", "pcb">>)) =>
            /\ UNCHANGED <<settings, file>>
            /\ get_project(settings', u, n) = {}
            /\ last'.saved = "no"

C23_DeleteAndNoops == [][C23_DeleteStep /\ C23_AbsentStep]_vars

\* one of two projects has just been deleted next to an issue
C23_Witness ==
    /\ last.op = "delete_project" /\ last.saved = "ok"
    /\ ~HasProject(settings, last.user, last.project_name)
    /\ DOMAIN get_user_projects(settings, last.user) # {}
    /\ UserIssues(settings, last.user) # EmptyDict

\* an update of a project that is not stored, in a store that is not
\* empty
C23_WitnessAbsent ==
    /\ last.op \in {"update_project_channels", "update_project_keywords", "delete_project"}
    /\ last.saved = "no"
    /\ ~HasProject(settings, last.user, last.project_name)
    /\ DOMAIN get_user_projects(settings, last.user) # {}

(***************************************************************************)
(* The classifier, the priority extractor and the title synthesizer:       *)
(* functions of the text of a message.                                     *)
(***************************************************************************)
issue_patterns ==
    <<[issue_type |-> "bug",
       keywords |-> <<"bug", "bugs", "buggy", "defect", "error", "broken">>],
      [issue_type |-> "failure",
       keywords |-> <<"failure", "failed", "failing", "fails", "crash", "crashed", "crashing">>],
      [issue_type |-> "problem",
       keywords |-> <<"problem", "problems", "issue", "issues", "trouble", "wrong">>],
      [issue_type |-> "malfunction",
       keywords |-> <<"malfunction", "not working", "doesn't work", "stopped working">>],
      [issue_type |-> "performance",
       keywords |-> <<"slow", "performance", "lag", "timeout", "bottleneck">>],
      [issue_type |-> "critical",
       keywords |-> <<"critical", "urgent", "emergency", "blocker", "show-stopper", "showstopper">>],
      [issue_type |-> "regression",
       keywords |-> <<"regression", "broke", "used to work", "was working">>],
      [issue_type |-> "hardware",
       keywords |-> <<"hardware issue", "pcb", "component failure", "short circuit", "thermal">>],
      [issue_type |-> "firmware",
       keywords |-> <<"firmware bug", "software issue", "code problem", "logic error">>]>>

\* any(keyword in text_lower for keyword in keywords)
AnyIn(keywords, text_lower) ==
    \E i \in 1..Len(keywords) : Contains(text_lower, Chars(keywords[i]))

\* the issue types in the order of the table
detect_issue_keywords(text) ==
    LET text_lower == Lower(Chars(text))
        detected == SelectSeq(issue_patterns, LAMBDA p : AnyIn(p.keywords, text_lower))
    IN  [i \in 1..Len(detected) |-> detected[i].issue_type]

CriticalWords == <<"critical", "urgent", "emergency", "blocker", "show-stopper", "showstopper">>
HighWords == <<"high", "important", "asap", "priority">>
LowWords == <<"low", "minor", "cosmetic", "nice to have">>

\* extract_issue_priority testing the low words before the others
extract_issue_priority_LowFirst(text) ==
    LET text_lower == Lower(Chars(text))
    IN  IF AnyIn(LowWords, text_lower) THEN "low"
        ELSE IF AnyIn(CriticalWords, text_lower) THEN "critical"
        ELSE IF AnyIn(HighWords, text_lower) THEN "high"
        ELSE "medium"

extract_issue_priority(text) ==
    LET text_lower == Lower(Chars(text))
    IN  IF AnyIn(CriticalWords, text_lower) THEN "critical"
        ELSE IF AnyIn(HighWords, text_lower) THEN "high"
        ELSE IF AnyIn(LowWords, text_lower) THEN "low"
        ELSE "medium"

\* the characters \S excludes and str.split() splits at (those of ASCII)
Whitespace == {9, 10, 11, 12, 13, 32}

\* lit is in s at position i
StartsAt(s, i, lit) ==
    /\ i + Len(lit) - 1 <= Len(s)
    /\ SubSeq(s, i, i + Len(lit) - 1) = lit

\* the last position of the run of characters that are no white space
\* which begins at i
RunEnd(s, i) ==
    CHOOSE j \in i..Len(s) :
        /\ \A k \in i..j : s[k] \notin Whitespace
        /\ j = Len(s) \/ s[j + 1] \in Whitespace

\* where the match of <[@#!][^>]+> that begins at i ends, 0 when there is
\* none: "<", one of "@#!", one character or more other than ">", ">"
MentionEnd(s, i) ==
    IF /\ i + 3 <= Len(s)
       /\ s[i] = 60
       /\ s[i + 1] \in {64, 35, 33}
       /\ s[i + 2] # 62
       /\ \E j \in (i + 3)..Len(s) : s[j] = 62
    THEN CHOOSE j \in (i + 3)..Len(s) :
             s[j] = 62 /\ \A k \in (i + 3)..(j - 1) : s[k] # 62
    ELSE 0

\* where the match of http[s]?://\S+ that begins at i ends, 0 when there
\* is none
UrlEnd(s, i) ==
    IF StartsAt(s, i, Chars("http"))
    THEN LET a == IF StartsAt(s, i + 4, Chars("s")) THEN i + 5 ELSE i + 4
         IN  IF /\ StartsAt(s, a, Chars("://"))
                /\ a + 3 <= Len(s)
                /\ s[a + 3] \notin Whitespace
             THEN RunEnd(s, a + 3)
             ELSE 0
    ELSE 0

\* re.sub(r'<[@#!][^>]+>', '', s), from position i on
RECURSIVE StripMentions(_, _)
StripMentions(s, i) ==
    IF i > Len(s) THEN <<>>
    ELSE LET e == MentionEnd(s, i)
         IN  IF e > 0 THEN StripMentions(s, e + 1)
             ELSE <<s[i]>> \o StripMentions(s, i + 1)

\* re.sub(r'http[s]?://\S+', '', s), from position i on
RECURSIVE StripUrls(_, _)
StripUrls(s, i) ==
    IF i > Len(s) THEN <<>>
    ELSE LET e == UrlEnd(s, i)
         IN  IF e > 0 THEN StripUrls(s, e + 1)
             ELSE <<s[i]>> \o StripUrls(s, i + 1)

\* s.split(), from position i on
RECURSIVE Split(_, _)
Split(s, i) ==
    IF i > Len(s) THEN <<>>
    ELSE IF s[i] \in Whitespace THEN Split(s, i + 1)
    ELSE LET e == RunEnd(s, i)
         IN  <<SubSeq(s, i, e)>> \o Split(s, e + 1)

\* " ".join(words)
RECURSIVE Join(_)
Join(words) ==
    IF words = <<>> THEN <<>>
    ELSE IF Len(words) = 1 THEN words[1]
    ELSE words[1] \o Chars(" ") \o Join(Tail(words))

\* s[:n]: a negative n counts from the end
SliceTo(s, n) ==
    IF n >= 0 THEN Take(s, n)
    ELSE IF Len(s) + n > 0 THEN Take(s, Len(s) + n)
    ELSE <<>>

\* s.strip()
Strip(s) ==
    LET inside == {i \in 1..Len(s) : s[i] \notin Whitespace}
    IN  IF inside = {} THEN <<>>
        ELSE SubSeq(s, CHOOSE i \in inside : \A j \in inside : i <= j,
                       CHOOSE i \in inside : \A j \in inside : i >= j)

skip_words ==
    {"the", "a", "an", "is", "was", "are", "were", "i", "we", "you", "they",
     "it", "this", "that"}

MaxWords == 12
DefaultMaxLength == 80

\* the words the loop keeps
filtered_words(text) ==
    LET cleaned == StripUrls(StripMentions(Chars(text), 1), 1)
        words == Split(cleaned, 1)
    IN  SelectSeq(words, LAMBDA word :
            /\ Lower(word) \notin {Chars(w) : w \in skip_words}
            /\ Len(word) > 2)

generate_issue_title(text, max_length) ==
    LET title == Join(Take(filtered_words(text), MaxWords))
    IN  Strip(IF Len(title) > max_length
              THEN SliceTo(title, max_length - 3) \o Chars("...")
              ELSE title)

(***************************************************************************)
(* detect_and_track_issues: the loop over the messages of a channel.       *)
(***************************************************************************)
\* issue_data of a message whose issue_types are not empty
IssueData(message) ==
    LET message_text == Get(message, "text", "")
        issue_types == detect_issue_keywords(message_text)
    IN  [title |-> generate_issue_title(message_text, DefaultMaxLength),
         original_text |-> message_text,
         channel |-> Get(message, "channel", ""),
         reporter |-> Get(message, "user", ""),
         timestamp |-> Get(message, "ts", ""),
         message_ts |-> Get(message, "ts", ""),
         priority |-> extract_issue_priority(message_text),
         tags |-> issue_types,
         types |-> issue_types]

\* the loop from message i on; detected_issues is the list so far
RECURSIVE DetectLoop(_, _, _)
DetectLoop(messages, i, detected_issues) ==
    IF i > Len(messages) THEN detected_issues
    ELSE LET message == messages[i]
             issue_types == detect_issue_keywords(Get(message, "text", ""))
         IN  DetectLoop(messages, i + 1,
                        IF issue_types # <<>>
                        THEN Append(detected_issues, IssueData(message))
                        ELSE detected_issues)

\* detect_and_track_issues returning one candidate for each text
detect_and_track_issues_OnePerText(messages, user_id) ==
    LET all == DetectLoop(messages, 1, <<>>)
        first == {k \in 1..Len(all) :
                    \A j \in 1..(k - 1) : all[j].original_text # all[k].original_text}
    IN  [n \in 1..Cardinality(first) |->
            all[CHOOSE k \in first : Cardinality({j \in first : j <= k}) = n]]

detect_and_track_issues(messages, user_id) == DetectLoop(messages, 1, <<>>)

(***************************************************************************)
(* summarize: the reply of the language model is parsed and returned; an   *)
(* Exception of the call or of the parsing gives the fallback.             *)
(***************************************************************************)
\* what client.chat.completions.create does: it raises, or returns a
\* response with no choice, with a choice that has no content, or with a
\* content that is a JSON document (an object, the sequence of its
\* members) or is not
ReplyRaises == [kind |-> "raises", content |-> <<>>]
ReplyNoChoice == [kind |-> "nochoice", content |-> <<>>]
ReplyNoContent == [kind |-> "nocontent", content |-> <<>>]
ReplyNoJson == [kind |-> "text", content |-> <<>>]
ReplyJson(members) == [kind |-> "json", content |-> members]

Replies ==
    {ReplyRaises, ReplyNoChoice, ReplyNoContent, ReplyNoJson,
     ReplyJson(<<>>),
     ReplyJson(<<[name |-> "bullets", value |-> <<>>]>>),
     ReplyJson(<<[name |-> "bullets",
                  value |-> <<[text |-> "The PCB has a bug", link |-> ""],
                              [text |-> "it is slow", link |-> ""]>>]>>),
     ReplyJson(<<[name |-> "bullets", value |-> <<>>],
                 [name |-> "bullets",
                  value |-> <<[text |-> "it is slow", link |-> ""]>>],
                 [name |-> "note", value |-> <<>>]>>)}

\* the exception of the try block, "none" when it completes
Raised(reply) ==
    CASE reply.kind = "raises" -> "APIError"
      [] reply.kind = "nochoice" -> "IndexError"
      [] reply.kind = "nocontent" -> "TypeError"
      [] reply.kind = "text" -> "JSONDecodeError"
      [] reply.kind = "json" -> "none"

\* json.loads of an object: a dict of its members, the last one of a name
\* that is repeated
loads(members) ==
    [name \in {members[i].name : i \in 1..Len(members)} |->
        members[CHOOSE i \in 1..Len(members) :
                    /\ members[i].name = name
                    /\ \A j \in (i + 1)..Len(members) : members[j].name # name].value]

Fallback ==
    [bullets |-> <<[text |-> "Error generating summary. Please try again later.",
                    link |-> ""]>>]

\* a handler for the errors of the parsing only
Caught_ParseErrors(exc) == exc \in {"JSONDecodeError", "TypeError"}

\* except Exception
Caught(exc) == exc \in {"APIError", "IndexError", "TypeError", "JSONDecodeError"}

\* what summarize raises ("none" when it returns) and what it returns
summarize(msgs, user_id, reply) ==
    LET exc == Raised(reply)
    IN  IF exc = "none" THEN [raises |-> "none", value |-> loads(reply.content)]
        ELSE IF Caught(exc) THEN [raises |-> "none", value |-> Fallback]
        ELSE [raises |-> exc, value |-> <<>>]

(***************************************************************************)
(* The functions of a text called one after the other, each call with its  *)
(* arguments and its result in last; the store is not touched.             *)
(***************************************************************************)
Texts ==
    {"The PCB has a bug", "Let's grab lunch today", "Critical system failure",
     "Minor cosmetic problem", "Regular bug report", "urgent: low priority bug",
     "High load, minor lag", "it is slow",
     "<@U1> see http://x.io/a the fan is broken",
     "bug one two three four five six seven eight nine ten eleven twelve", ""}

MaxLengths == {-1, 0, 2, 3, 10, DefaultMaxLength}

\* texts with a common beginning of 100 characters, and others
IdTexts == {"long-a", "long-b", "short-c", ""}

\* messages as the caller builds them, and partial ones
MsgBug ==
    [text |-> "The PCB has a bug", user |-> "john", user_id |-> "U1",
     channel |-> "C1", ts |-> "2000", formatted |-> "[john] The PCB has a bug"]
MsgLunch ==
    [text |-> "Let's grab lunch today", user |-> "jane", user_id |-> "U2",
     channel |-> "C1", ts |-> "1000", formatted |-> "[jane] Let's grab lunch today"]
MsgCritical ==
    [text |-> "Critical system failure", user |-> "jane", user_id |-> "U2",
     channel |-> "C2", ts |-> "1000", formatted |-> "[jane] Critical system failure"]
MsgNoText == [user |-> "john", channel |-> "C1", ts |-> "1000"]
MsgTextOnly == [text |-> "it is slow"]

DetectMessages == {MsgBug, MsgLunch, MsgCritical, MsgNoText, MsgTextOnly}

\* the batches of at most two messages
DetectBatches ==
    {<<>>} \cup {<<m>> : m \in DetectMessages}
           \cup {<<m, n>> : m \in DetectMessages, n \in DetectMessages}

Pure(op, args, ret) ==
    /\ last' = [op |-> op, args |-> args, ret |-> ret]
    /\ UNCHANGED <<settings, file, disk, clock, other>>

DetectIssueKeywordsText ==
    \E text \in Texts :
        Pure("detect_issue_keywords", <<text>>, detect_issue_keywords(text))

ExtractIssuePriorityText ==
    \E text \in Texts :
        Pure("extract_issue_priority", <<text>>, extract_issue_priority(text))

GenerateIssueTitleText ==
    \E text \in Texts, max_length \in MaxLengths :
        Pure("generate_issue_title", <<text, max_length>>,
             generate_issue_title(text, max_length))

GenerateIssueIdText ==
    \E text \in IdTexts, channel \in {"C1", "C2"}, timestamp \in {"1000", "2000"} :
        Pure("_generate_issue_id", <<text, channel, timestamp>>,
             _generate_issue_id(text, channel, timestamp))

DetectAndTrackIssuesText ==
    \E messages \in DetectBatches, user_id \in Users :
        Pure("detect_and_track_issues", <<messages, user_id>>,
             detect_and_track_issues(messages, user_id))

SummarizeText ==
    \E msgs \in {<<>>, <<"[john] The PCB has a bug">>}, user_id \in Users, reply \in Replies :
        Pure("summarize", <<msgs, user_id, reply>>, summarize(msgs, user_id, reply))

NextText ==
    \/ DetectIssueKeywordsText
    \/ ExtractIssuePriorityText
    \/ GenerateIssueTitleText
    \/ GenerateIssueIdText
    \/ DetectAndTrackIssuesText
    \/ SummarizeText

SpecText == InitQuery /\ [][NextText]_vars

C24_WitnessOrder ==
    /\ last.op = "detect_and_track_issues"
    /\ last.args[1] = <<MsgBug, MsgCritical>>
    /\ Len(last.ret) = 2
    /\ last.ret[1].timestamp = "2000" /\ last.ret[2].timestamp = "1000"

(***************************************************************************)
(* C25.  extract_issue_priority tries the critical, the high and the low   *)
(* words in that order and returns the level of the first family of which  *)
(* a word is in the lower-cased text, medium when there is none: a text    *)
(* with a critical word gives critical whatever other words it has, and a  *)
(* text with a high and a low word and no critical word gives high.        *)
(***************************************************************************)
HasWord(text, words) ==
    \E w \in Range(words) : Contains(Lower(Chars(text)), Chars(w))

C25_PriorityPrecedence ==
    last.op = "extract_issue_priority" =>
        LET text == last.args[1]
            critical == HasWord(text, CriticalWords)
            high == HasWord(text, HighWords)
            low == HasWord(text, LowWords)
        IN  /\ critical => last.ret = "critical"
            /\ (~critical /\ high) => last.ret = "high"
            /\ (~critical /\ ~high /\ low) => last.ret = "low"
            /\ (~critical /\ ~high /\ ~low) => last.ret = "medium"

\* a text with a critical, a high and a low word
C25_Witness ==
    /\ last.op = "extract_issue_priority"
    /\ HasWord(last.args[1], CriticalWords)
    /\ HasWord(last.args[1], HighWords)
    /\ HasWord(last.args[1], LowWords)
    /\ last.ret = "critical"

\* a text with a high and a low word and no critical one
C25_WitnessHigh ==
    /\ last.op = "extract_issue_priority"
    /\ ~HasWord(last.args[1], CriticalWords)
    /\ HasWord(last.args[1], HighWords)
    /\ HasWord(last.args[1], LowWords)
    /\ last.ret = "high"

(***************************************************************************)
(* C26.  For every text and every max_length, the title that               *)
(* generate_issue_title returns is at most max_length characters long.     *)
(***************************************************************************)
C26_TitleBound ==
    last.op = "generate_issue_title" => Len(last.ret) <= last.args[2]

(***************************************************************************)
(* C27.  _generate_issue_id(text, channel, timestamp) is an id of 8        *)
(* characters that is determined by the first 100 characters of the text,  *)
(* the channel and the timestamp: a text that has the same first 100       *)
(* characters gets the same id for the same channel and timestamp, also    *)
(* when it differs after them.                                             *)
(***************************************************************************)
C27_FingerprintOfPrefix ==
    last.op = "_generate_issue_id" =>
        LET text == last.args[1]
            channel == last.args[2]
            timestamp == last.args[3]
        IN  /\ Len(last.ret) = 8
            /\ \A d \in Range(last.ret) : d \in 0..15
            /\ \A t \in IdTexts :
                 Take(Chars(t), PrefixLen) = Take(Chars(text), PrefixLen)
                    => _generate_issue_id(t, channel, timestamp) = last.ret

\* the id of a text for which there is another text with the same first
\* 100 characters
C27_Witness ==
    /\ last.op = "_generate_issue_id"
    /\ last.args[1] = "long-a"
    /\ Chars("long-b") # Chars("long-a")
    /\ Take(Chars("long-b"), PrefixLen) = Take(Chars("long-a"), PrefixLen)

(***************************************************************************)
(* C28.  summarize never raises: when the call of the language model or    *)
(* the parsing of its reply raises an exception, summarize returns the     *)
(* fallback, whose bullets are one bullet with a text that contains        *)
(* 'Error generating summary'; when both succeed it returns the parsed     *)
(* reply as it is.                                                         *)
(***************************************************************************)
C28_SummarizeFallsBack ==
    last.op = "summarize" =>
        LET reply == last.args[3]
        IN  /\ last.ret.raises = "none"
            /\ reply.kind # "json" =>
                 /\ DOMAIN last.ret.value = {"bullets"}
                 /\ Len(last.ret.value.bullets) = 1
                 /\ Contains(Chars(last.ret.value.bullets[1].text),
                             Chars("Error generating summary"))
            /\ reply.kind = "json" =>
                 /\ DOMAIN last.ret.value = {reply.content[i].name : i \in 1..Len(reply.content)}
                 /\ \A i \in 1..Len(reply.content) :
                      (\A j \in (i + 1)..Len(reply.content) :
                          reply.content[j].name # reply.content[i].name)
                        => last.ret.value[reply.content[i].name] = reply.content[i].value

\* the call of the language model has raised
C28_Witness ==
    /\ last.op = "summarize"
    /\ last.args[3] = ReplyRaises
    /\ last.ret.value = Fallback

\* a reply with two bullets has been parsed
C28_WitnessParsed ==
    /\ last.op = "summarize"
    /\ last.args[3].kind = "json"
    /\ "bullets" \in DOMAIN last.ret.value
    /\ Len(last.ret.value.bullets) = 2

(***************************************************************************)
(* The issues and the projects of two users in one store.                  *)
(***************************************************************************)
CreateIssueShared ==
    /\ \E u \in Users, c \in TwoCandidates : create_issue(u, c)
    /\ UNCHANGED other

UpdateIssueStatusShared ==
    /\ \E u \in Users, i \in TwoIssueIds : update_issue_status(u, i, "resolved", None)
    /\ UNCHANGED other

AddRelatedMessageShared ==
    /\ \E u \in Users, i \in TwoIssueIds, m \in MessageArgs : add_related_message(u, i, m)
    /\ UNCHANGED other

CreateProjectShared ==
    /\ \E u \in Users, n \in ProjectNames : create_project(u, n, <<"C1">>, Omitted)
    /\ UNCHANGED other

UpdateProjectChannelsShared ==
    /\ \E u \in Users, n \in ProjectNames : update_project_channels(u, n, <<"C2", "C2">>)
    /\ UNCHANGED other

UpdateProjectKeywordsShared ==
    /\ \E u \in Users, n \in ProjectNames : update_project_keywords(u, n, <<"pcb">>)
    /\ UNCHANGED other

DeleteProjectShared ==
    /\ \E u \in Users, n \in ProjectNames : delete_project(u, n)
    /\ UNCHANGED other

ToggleProjectStatusShared ==
    /\ \E u \in Users, n \in ProjectNames : toggle_project_status(u, n)
    /\ UNCHANGED other

NextShared ==
    \/ CreateIssueShared
    \/ UpdateIssueStatusShared
    \/ AddRelatedMessageShared
    \/ CreateProjectShared
    \/ UpdateProjectChannelsShared
    \/ UpdateProjectKeywordsShared
    \/ DeleteProjectShared
    \/ ToggleProjectStatusShared

SpecShared == Init /\ [][NextShared]_vars

(***************************************************************************)
(* C29.  An issue or project operation called for one user leaves the      *)
(* record of every other user as it was, and what is stored under another  *)
(* user only is absent for the caller: get_issue and get_project find      *)
(* nothing, update_issue_status and add_related_message return False, and  *)
(* the project mutators change nothing.                                    *)
(***************************************************************************)
IssueOps == {"create_issue", "update_issue_status", "add_related_message"}
ProjectOps ==
    {"create_project", "update_project_channels", "update_project_keywords",
     "toggle_project_status", "delete_project"}

\* user b has what the call was about and its user has not
OnlyUnder(b, s) ==
    IF last'.op \in IssueOps
    THEN HasIssue(s, b, last'.issue_id) /\ ~HasIssue(s, last'.user, last'.issue_id)
    ELSE HasProject(s, b, last'.project_name)
           /\ ~HasProject(s, last'.user, last'.project_name)

C29_IsolationStep ==
    \A a \in Users : \A b \in Users \ {a} :
        (last'.op \in IssueOps \cup ProjectOps /\ last'.user = a) =>
            /\ b \in DOMAIN settings' <=> b \in DOMAIN settings
            /\ b \in DOMAIN settings => settings'[b] = settings[b]
            /\ (OnlyUnder(b, settings) /\ last'.op \notin {"create_issue", "create_project"}) =>
                 /\ UNCHANGED settings
                 /\ last'.saved = "no"
                 /\ last'.op \in IssueOps => last'.ret = "False"
                 /\ last'.op \in ProjectOps => last'.ret = None

C29_AbsentForOthers ==
    \A a \in Users : \A b \in Users \ {a} :
        /\ \A i \in TwoIssueIds :
             (HasIssue(settings, b, i) /\ ~HasIssue(settings, a, i))
                => get_issue(settings, a, i) = {}
        /\ \A n \in ProjectNames :
             (HasProject(settings, b, n) /\ ~HasProject(settings, a, n))
                => get_project(settings, a, n) = {}

C29_Isolation == []C29_AbsentForOthers /\ [][C29_IsolationStep]_vars

\* a user has just been refused the issue that only the other user has,
\* who also has a project
C29_Witness ==
    /\ last.op = "update_issue_status" /\ last.ret = "False" /\ last.user = "U1"
    /\ HasIssue(settings, "U2", last.issue_id)
    /\ ~HasIssue(settings, "U1", last.issue_id)
    /\ HasProject(settings, "U2", "P1")
    /\ "U1" \in DOMAIN settings

\* a user has just changed a project while the other user has one of the
\* same name
C29_WitnessProject ==
    /\ last.op = "toggle_project_status" /\ last.ret = "False" /\ last.user = "U1"
    /\ HasProject(settings, "U2", "P1")
    /\ settings["U2"]["projects"]["P1"].active

(***************************************************************************)
(* C30.  In the record that create_issue stores, created_at equals         *)
(* updated_at and both equal the timestamp of the open entry that seeds    *)
(* the history; and the entry that update_issue_status appends has the     *)
(* timestamp that the call sets as updated_at.                             *)
(***************************************************************************)
C30_OneNowStep ==
    \A u \in QueryUsers, i \in QueryIssueIds :
        /\ Created(u, i) =>
             LET issue == DictGet(UserIssues(settings', u), i)
             IN  /\ issue.created_at = issue.updated_at
                 /\ issue.created_at = issue.status_history[1].timestamp
        /\ Updated(u, i) =>
             LET issue == DictGet(UserIssues(settings', u), i)
             IN  Last(issue.status_history).timestamp = issue.updated_at

C30_OneNow == [][C30_OneNowStep]_vars

====
